---- MODULE Spec2Model ----
(***************************************************************************)
(* State-machine model of two solver adapters of code_saturne:             *)
(*   - the HYPRE matrix back-end's coefficient addition                    *)
(*     (src/src/alge/cs_matrix_hypre.c), and                               *)
(*   - the AMGX linear solver adapter (src/src/alge/cs_sles_amgx.c).       *)
(*                                                                         *)
(* Integer widths are scaled: HYPRE_Int is IntBits wide (32 in the code),  *)
(* cs_gnum_t and HYPRE_BigInt are one bit wider (64 in the code), and the  *)
(* coefficient batch holds COEFF_GROUP_SIZE entries (512 in the code); a   *)
(* chunk of _set_coeffs_ij is closed at max_chunk_size entries (32767 in   *)
(* the code).                                                              *)
(***************************************************************************)
EXTENDS Integers, Sequences, FiniteSets, Bags, TLC

VARIABLES
  \* ---- HYPRE matrix coefficients (cs_matrix_t / cs_matrix_coeffs_hypre_t)
  mixedint,     \* build: TRUE when HYPRE_Int is narrower than HYPRE_BigInt
  l_range,      \* coeffs->l_range: owned global (block) rows [lo, hi)
  db_size,      \* matrix->db_size[0]
  fill_type,    \* matrix->fill_type
  hm,           \* HYPRE IJ matrix: bag of <<row, col, value>> added so far
  contrib,      \* history: bag of scalar <<row, col, value>> given to add
  n_contrib,    \* history: number of entries given to add so far
  hypre_fail_in,\* back-end: calls that still succeed before one fails (-1: all)
  \* ---- AMGX adapter (cs_sles_amgx.c)
  n_amgx_systems,   \* _n_amgx_systems
  amgx_initialized, \* AMGX library: AMGX_initialize calls not yet finalized
  resource_config_string, \* _resource_config_string: NULL or the string
  amgx_resources,   \* AMGX library: NULL, or the resources and their config
  ctx,              \* the callers' context pointers: NULL or a cs_sles_amgx_t
  amgx_matrices,    \* AMGX library: matrix handles created and not destroyed
  amgx_solvers,     \* AMGX library: solver handles created and not destroyed
  n_handles,        \* AMGX library: number of matrix handles created so far
  its_hist,         \* history: iteration counts of the solves of each context
  last,             \* history: the last call, its inputs and what it returned
  pc,               \* threads of the concurrent specification: where each is
  \* ---- HYPRE matrix life cycle (cs_matrix_t, the HYPRE library's objects)
  matrix_type,      \* matrix->type: "previous" or "hypre"
  vtable,           \* matrix->set_coefficients, ..., assembler_values_create
  vector_multiply,  \* matrix->vector_multiply[fill type][exclude_diag]
  coeffs,           \* matrix->coeffs: NULL or the coefficients structure
  n_coeffs,         \* number of coefficients structures allocated so far
  mav,              \* the open value-insertion session, or NULL
  handles,          \* HYPRE library: objects created and not destroyed
  n_objects,        \* HYPRE library: number of objects created so far
  mcall,            \* history: the last call and the calls it made, in order
  fill,             \* the running call of _set_coeffs_ij, chunk by chunk
  \* ---- preallocation counts (inputs of the _compute_diag_sizes functions)
  ma,               \* matrix->assembler: the CSR structure
  native,           \* the edge-list structure given to set_coefficients
  sizes,            \* history: the counts the last computation returned
  numbering,        \* matrix->numbering: NULL or the numbering of the edges
  walk,             \* the running call of _compute_diag_sizes_native
  \* ---- shared
  bft_err       \* bft_error: NoError, or the fatal error that ended the run

hypre_add_vars == <<mixedint, l_range, db_size, fill_type, hm, contrib,
                    n_contrib, hypre_fail_in>>

matrix_vars == <<matrix_type, vtable, vector_multiply, coeffs, n_coeffs, mav,
                 handles, n_objects, mcall, fill>>

prealloc_vars == <<ma, native, sizes, numbering, walk>>

hypre_vars == <<hypre_add_vars, matrix_vars, prealloc_vars>>

amgx_lib_vars == <<n_amgx_systems, amgx_initialized>>

amgx_sys_vars == <<ctx, amgx_matrices, amgx_solvers, n_handles, its_hist>>

amgx_res_vars == <<resource_config_string, amgx_resources>>

amgx_vars == <<amgx_lib_vars, amgx_res_vars, amgx_sys_vars, last, pc>>

vars == <<hypre_vars, amgx_vars, bft_err>>

(***************************************************************************)
(* Bounds of the model.                                                    *)
(***************************************************************************)
IntBits == 3
COEFF_GROUP_SIZE == 4
MaxEntries == 5
MaxHypreFail == 1
MaxSlots == 2
MaxDepth == 2
MaxSetups == 2
MaxSolves == 3
MaxIts == 2
MaxRows == 2
MaxCols == 3
MaxEdges == 2
MaxBlock == 3
MaxCoeffs == 3
MaxObjects == 6
MaxLifeAdds == 2
MaxThreads == 2
MaxGroups == 2
max_chunk_size == 3
MaxChunks == 4
MaxFillRows == 4
MaxFillEdges == 3
MaxExtraVisits == 1

(***************************************************************************)
(* Integer types.                                                          *)
(***************************************************************************)
RECURSIVE Pow2(_)
Pow2(k) == IF k = 0 THEN 1 ELSE 2 * Pow2(k - 1)

GnumBits == IntBits + 1

\* Values of cs_gnum_t (unsigned).
Gnum == 0 .. (Pow2(GnumBits) - 1)

\* Conversion of a global id to HYPRE_Int: value-preserving when HYPRE_Int
\* is as wide as the id, else reduced modulo 2^IntBits into the signed range.
ToHypreInt(g) ==
  IF ~mixedint THEN g
  ELSE LET m == g % Pow2(IntBits)
       IN  IF m >= Pow2(IntBits - 1) THEN m - Pow2(IntBits) ELSE m

(***************************************************************************)
(* Fatal errors (bft_error with the default handler ends the process).     *)
(***************************************************************************)
\* The null pointer.
NULL == [tag |-> "NULL"]

\* The name argument of an error message that names no system.
NoName == [tag |-> "none"]

NoError == [func |-> "", name |-> NoName]

bft_error(func, name) == [func |-> func, name |-> name]

Running == bft_err = NoError

(***************************************************************************)
(* HYPRE back-end: _assembler_values_add_g and its block helpers.          *)
(* A caller's arrays are 1-based sequences here; entry s_id + i of the     *)
(* code is element s_id + i + 1.                                           *)
(***************************************************************************)
CS_MATRIX_SCALAR == 0
CS_MATRIX_BLOCK_D == 2
CS_MATRIX_BLOCK == 5

Min(a, b) == IF a < b THEN a ELSE b

\* The ownership test of the three add paths, on the narrowed row id.
RowIsLocal(row, l_b, u_b) ==
  LET r_g_id == ToHypreInt(row)
  IN  r_g_id >= l_b /\ r_g_id < u_b

\* Scalar path: the (rows, cols, values) buffers after the inner loop over
\* i in [i, n_group) of the group starting at s_id.
RECURSIVE ScalarGroup(_, _, _, _, _, _, _, _)
ScalarGroup(row_g_id, col_g_id, vals, s_id, i, n_group, l_b, u_b) ==
  IF i >= n_group THEN << >>
  ELSE LET rest == ScalarGroup(row_g_id, col_g_id, vals, s_id, i + 1,
                               n_group, l_b, u_b)
       IN  IF RowIsLocal(row_g_id[s_id + i + 1], l_b, u_b)
           THEN << <<row_g_id[s_id + i + 1], col_g_id[s_id + i + 1],
                     vals[s_id + i + 1]>> >> \o rest
           ELSE rest

\* Size of the group starting at s_id.
GroupSize(s_id, n, step) ==
  IF s_id + step > n THEN n - s_id ELSE step

\* Scalar path: the sequence of batches handed to HYPRE_IJMatrixAddToValues,
\* one per group of COEFF_GROUP_SIZE entries.
RECURSIVE ScalarBatches(_, _, _, _, _, _, _)
ScalarBatches(n, row_g_id, col_g_id, vals, s_id, l_b, u_b) ==
  IF s_id >= n THEN << >>
  ELSE << ScalarGroup(row_g_id, col_g_id, vals, s_id, 0,
                      GroupSize(s_id, n, COEFF_GROUP_SIZE), l_b, u_b) >>
       \o ScalarBatches(n, row_g_id, col_g_id, vals,
                        s_id + COEFF_GROUP_SIZE, l_b, u_b)

\* Full-block path: the b_size x b_size scalar entries written for entry e
\* (0-based) of the caller's arrays, in buffer order (j outer, k inner).
BlockCCEntry(e, b_size, stride, row_g_id, col_g_id, vals) ==
  [p \in 1 .. (b_size * b_size) |->
     LET j == (p - 1) \div b_size
         k == (p - 1) % b_size
     IN  <<row_g_id[e + 1] * b_size + j,
           col_g_id[e + 1] * b_size + k,
           vals[e * stride + j * b_size + k + 1]>>]

RECURSIVE BlockCCGroup(_, _, _, _, _, _, _, _, _, _)
BlockCCGroup(row_g_id, col_g_id, vals, b_size, stride, s_id, i, n_group, l_b, u_b) ==
  IF i >= n_group THEN << >>
  ELSE LET rest == BlockCCGroup(row_g_id, col_g_id, vals, b_size, stride,
                                s_id, i + 1, n_group, l_b, u_b)
       IN  IF RowIsLocal(row_g_id[s_id + i + 1], l_b, u_b)
           THEN BlockCCEntry(s_id + i, b_size, stride,
                             row_g_id, col_g_id, vals) \o rest
           ELSE rest

\* _assembler_values_add_block_cc: its batches, block_step entries each.
RECURSIVE BlockCCBatches(_, _, _, _, _, _, _, _, _)
BlockCCBatches(n, b_size, stride, row_g_id, col_g_id, vals, s_id, l_b, u_b) ==
  LET block_step == COEFF_GROUP_SIZE \div stride
  IN  IF s_id >= n THEN << >>
      ELSE << BlockCCGroup(row_g_id, col_g_id, vals, b_size, stride, s_id, 0,
                           GroupSize(s_id, n, block_step), l_b, u_b) >>
           \o BlockCCBatches(n, b_size, stride, row_g_id, col_g_id, vals,
                             s_id + block_step, l_b, u_b)

\* Diagonal-block extra-diagonal path: the b_size scalar entries of entry e.
BlockDEEntry(e, b_size, row_g_id, col_g_id, vals) ==
  [p \in 1 .. b_size |->
     <<row_g_id[e + 1] * b_size + (p - 1),
       col_g_id[e + 1] * b_size + (p - 1),
       vals[e + 1]>>]

RECURSIVE BlockDEGroup(_, _, _, _, _, _, _, _, _)
BlockDEGroup(row_g_id, col_g_id, vals, b_size, s_id, i, n_group, l_b, u_b) ==
  IF i >= n_group THEN << >>
  ELSE LET rest == BlockDEGroup(row_g_id, col_g_id, vals, b_size,
                                s_id, i + 1, n_group, l_b, u_b)
       IN  IF RowIsLocal(row_g_id[s_id + i + 1], l_b, u_b)
           THEN BlockDEEntry(s_id + i, b_size, row_g_id, col_g_id, vals)
                \o rest
           ELSE rest

\* _assembler_values_add_block_d_e: its batches, block_step entries each.
RECURSIVE BlockDEBatches(_, _, _, _, _, _, _, _)
BlockDEBatches(n, b_size, row_g_id, col_g_id, vals, s_id, l_b, u_b) ==
  LET block_step == COEFF_GROUP_SIZE \div b_size
  IN  IF s_id >= n THEN << >>
      ELSE << BlockDEGroup(row_g_id, col_g_id, vals, b_size, s_id, 0,
                           GroupSize(s_id, n, block_step), l_b, u_b) >>
           \o BlockDEBatches(n, b_size, row_g_id, col_g_id, vals,
                             s_id + block_step, l_b, u_b)

\* The path _assembler_values_add_g takes, and the batches it submits.
AddGBatches(n, stride, row_g_id, col_g_id, vals) ==
  LET l_b == l_range[1]
      u_b == l_range[2]
      b_size == db_size
  IN  IF b_size = 1
      THEN ScalarBatches(n, row_g_id, col_g_id, vals, 0, l_b, u_b)
      ELSE IF fill_type >= CS_MATRIX_BLOCK \/ row_g_id[1] = col_g_id[1]
      THEN BlockCCBatches(n, b_size, stride, row_g_id, col_g_id, vals,
                          0, l_b, u_b)
      ELSE IF fill_type >= CS_MATRIX_BLOCK_D
      THEN BlockDEBatches(n, b_size, row_g_id, col_g_id, vals, 0, l_b, u_b)
      ELSE << >>

\* The bag of the elements of a sequence.
BagOfSeq(s) ==
  [e \in {s[i] : i \in DOMAIN s} |->
     Cardinality({i \in DOMAIN s : s[i] = e})]

\* HYPRE_IJMatrixAddToValues on the first k batches.
RECURSIVE AddToValues(_, _, _)
AddToValues(m, batches, k) ==
  IF k = 0 THEN m
  ELSE AddToValues(m, batches, k - 1) (+) BagOfSeq(batches[k])

(***************************************************************************)
(* The add callback and the calls the assembler makes to it.               *)
(***************************************************************************)

\* _assembler_values_add_g(matrix, n, stride, row_g_id, col_g_id, vals).
\* The back-end call of batch hypre_fail_in + 1, if there is one, returns a
\* nonzero code: no later batch is submitted and bft_error is called;
\* applied tells whether the library added the failing batch.
assembler_values_add_g(n, stride, row_g_id, col_g_id, vals, applied) ==
  LET batches == AddGBatches(n, stride, row_g_id, col_g_id, vals)
      fails == hypre_fail_in >= 0 /\ hypre_fail_in < Len(batches)
      k == IF ~fails THEN Len(batches)
           ELSE IF applied THEN hypre_fail_in + 1 ELSE hypre_fail_in
  IN  /\ (applied => fails)
      /\ hm' = AddToValues(hm, batches, k)
      /\ hypre_fail_in' = IF fails \/ hypre_fail_in < 0 THEN -1
                          ELSE hypre_fail_in - Len(batches)
      /\ bft_err' = IF fails THEN bft_error("_assembler_values_add_g", NoName)
                    ELSE bft_err

\* The scalar coefficients a call contributes, whatever their owner:
\* entry i stands for one value (scalar matrix), for a b_size x b_size block
\* (stride b_size^2) or for b_size equal values on a block's diagonal.
Contributed(n, stride, row_g_id, col_g_id, vals) ==
  LET per == IF db_size = 1 THEN 1
             ELSE IF stride > 1 THEN db_size * db_size ELSE db_size
      all == [q \in 1 .. (n * per) |->
                LET i == (q - 1) \div per
                    p == (q - 1) % per
                    j == IF stride > 1 THEN p \div db_size ELSE p
                    k == IF stride > 1 THEN p % db_size ELSE p
                IN  <<row_g_id[i + 1] * db_size + j,
                      col_g_id[i + 1] * db_size + k,
                      vals[i * stride + (IF stride > 1 THEN p ELSE 0) + 1]>>]
  IN  BagOfSeq(all)

\* Owned row ranges tried: one inside the range of HYPRE_Int, one beyond it.
LRanges ==
  { <<1, 3>>, <<Pow2(IntBits) + 1, Pow2(IntBits) + 3>> }

\* A global id outside the owned range that is congruent to its first row
\* modulo 2^IntBits.
AliasOf(g) == (g + Pow2(IntBits)) % Pow2(GnumBits)

\* Entries <<row, col, value>> a caller passes: rows just below, inside,
\* and just above the owned range, and one far outside it.
MixedEntries ==
  LET lo == l_range[1]
      hi == l_range[2]
  IN  { <<lo - 1, lo, 1>>, <<lo, lo, 2>>, <<hi - 1, hi, 1>>,
        <<hi, hi, 2>>, <<AliasOf(lo), lo, 1>> }

DiagEntries ==
  LET lo == l_range[1]
      hi == l_range[2]
  IN  { <<lo - 1, lo - 1, 1>>, <<lo, lo, 2>>, <<hi - 1, hi - 1, 1>>,
        <<hi, hi, 2>>, <<AliasOf(lo), AliasOf(lo), 1>> }

ExtraEntries ==
  LET lo == l_range[1]
      hi == l_range[2]
  IN  { <<lo - 1, lo, 1>>, <<lo, hi, 2>>, <<hi - 1, lo, 1>>,
        <<hi, lo, 2>>, <<AliasOf(lo), lo, 1>> }

\* One call of the add callback on n entries es with the given stride.
AddCall(n, stride, es) ==
  LET row_g_id == [i \in 1 .. n |-> es[i][1]]
      col_g_id == [i \in 1 .. n |-> es[i][2]]
      vals == [q \in 1 .. (n * stride) |->
                 es[((q - 1) \div stride) + 1][3] + ((q - 1) % stride)]
  IN  /\ Running
      /\ \E applied \in BOOLEAN :
           assembler_values_add_g(n, stride, row_g_id, col_g_id, vals,
                                  applied)
      /\ contrib' = contrib (+) Contributed(n, stride, row_g_id, col_g_id,
                                            vals)
      /\ n_contrib' = n_contrib + n
      /\ UNCHANGED <<mixedint, l_range, db_size, fill_type>>
      /\ UNCHANGED <<matrix_vars, prealloc_vars, amgx_vars>>

\* A call holds at most one entry more than its path puts in a batch.
MaxN(step) == Min(step + 1, MaxEntries - n_contrib)

\* Scalar matrix: any entries, stride 1.
AddScalar ==
  /\ db_size = 1
  /\ \E n \in 0 .. MaxN(COEFF_GROUP_SIZE) :
       \E es \in [1 .. n -> MixedEntries] : AddCall(n, 1, es)

\* Full-block fill: any blocks, stride b_size^2.
AddBlock ==
  /\ db_size > 1 /\ fill_type = CS_MATRIX_BLOCK
  /\ \E n \in 1 .. MaxN(COEFF_GROUP_SIZE \div (db_size * db_size)) :
       \E es \in [1 .. n -> MixedEntries] :
         AddCall(n, db_size * db_size, es)

\* Diagonal-block fill, diagonal blocks: stride b_size^2.
AddBlockDiag ==
  /\ db_size > 1 /\ fill_type = CS_MATRIX_BLOCK_D
  /\ \E n \in 1 .. MaxN(COEFF_GROUP_SIZE \div (db_size * db_size)) :
       \E es \in [1 .. n -> DiagEntries] :
         AddCall(n, db_size * db_size, es)

\* Diagonal-block fill, extra-diagonal terms: one value per entry.
AddBlockExtra ==
  /\ db_size > 1 /\ fill_type = CS_MATRIX_BLOCK_D
  /\ \E n \in 1 .. MaxN(COEFF_GROUP_SIZE \div db_size) :
       \E es \in [1 .. n -> ExtraEntries] : AddCall(n, 1, es)

(***************************************************************************)
(* Preallocation: the counts of entries of each row in the diagonal part   *)
(* (columns owned by this rank) and in the off-diagonal part.              *)
(*                                                                         *)
(* A CSR structure a is a record: a.n_rows, a.separate_diag, a.row_index   *)
(* (n_rows + 1 offsets) and a.col_ids; C index i is element i + 1.  The    *)
(* counts are functions on 0 .. n - 1, as the C arrays are.                *)
(***************************************************************************)

\* The scan of a row's columns j .. e_id - 1 in _compute_diag_sizes_assembler
\* and _compute_diag_sizes_assembler_b: n_r_diag, the number of columns
\* met before the first one whose id is not below n_rows.
RECURSIVE ScanLocal(_, _, _, _)
ScanLocal(col_ids, n_rows, j, e_id) ==
  IF j < e_id /\ col_ids[j + 1] < n_rows
  THEN 1 + ScanLocal(col_ids, n_rows, j + 1, e_id)
  ELSE 0

\* The scan of _compute_diag_sizes_assembler_db: a column equal to the row
\* id i adds b_size - 1 more to n_r_diag.
RECURSIVE ScanLocalDb(_, _, _, _, _, _)
ScanLocalDb(col_ids, n_rows, i, b_size, j, e_id) ==
  IF j < e_id /\ col_ids[j + 1] < n_rows
  THEN 1 + (IF col_ids[j + 1] = i THEN b_size - 1 ELSE 0)
         + ScanLocalDb(col_ids, n_rows, i, b_size, j + 1, e_id)
  ELSE 0

\* The counts of the scalar variant with the separately stored diagonal
\* left out.
compute_diag_sizes_assembler_no_diag_add(a) ==
  LET s_id(i) == a.row_index[i + 1]
      e_id(i) == a.row_index[i + 2]
      n_r_diag(i) == ScanLocal(a.col_ids, a.n_rows, s_id(i), e_id(i))
      n_cols(i) == e_id(i) - s_id(i)
  IN  [diag_sizes |-> [i \in 0 .. (a.n_rows - 1) |-> n_r_diag(i)],
       offdiag_sizes |-> [i \in 0 .. (a.n_rows - 1) |->
                            n_cols(i) - n_r_diag(i)]]

\* _compute_diag_sizes_assembler(ma, &diag_sizes, &offdiag_sizes).
compute_diag_sizes_assembler(a) ==
  LET n_diag_add == IF a.separate_diag THEN 1 ELSE 0
      s_id(i) == a.row_index[i + 1]
      e_id(i) == a.row_index[i + 2]
      n_r_diag(i) == ScanLocal(a.col_ids, a.n_rows, s_id(i), e_id(i))
      n_cols(i) == e_id(i) - s_id(i)
  IN  [diag_sizes |-> [i \in 0 .. (a.n_rows - 1) |->
                         n_r_diag(i) + n_diag_add],
       offdiag_sizes |-> [i \in 0 .. (a.n_rows - 1) |->
                            n_cols(i) - n_r_diag(i)]]

\* _compute_diag_sizes_assembler_db(ma, db_size, &diag_sizes,
\* &offdiag_sizes): the counts of block row i are those of each of its
\* b_size scalar rows.
compute_diag_sizes_assembler_db(a, b_size) ==
  LET n_diag_add == IF a.separate_diag THEN b_size ELSE 0
      s_id(i) == a.row_index[i + 1]
      e_id(i) == a.row_index[i + 2]
      n_r_diag(i) == ScanLocalDb(a.col_ids, a.n_rows, i, b_size,
                                 s_id(i), e_id(i))
      n_cols(i) == e_id(i) - s_id(i)
  IN  [diag_sizes |-> [k \in 0 .. (a.n_rows * b_size - 1) |->
                         n_r_diag(k \div b_size) + n_diag_add],
       offdiag_sizes |-> [k \in 0 .. (a.n_rows * b_size - 1) |->
                            n_cols(k \div b_size) - n_r_diag(k \div b_size)]]

\* _compute_diag_sizes_assembler_b(ma, b_size, &diag_sizes, &offdiag_sizes).
compute_diag_sizes_assembler_b(a, b_size) ==
  LET n_diag_add == IF a.separate_diag THEN 1 ELSE 0
      s_id(i) == a.row_index[i + 1]
      e_id(i) == a.row_index[i + 2]
      n_r_diag(i) == ScanLocal(a.col_ids, a.n_rows, s_id(i), e_id(i))
      n_cols(i) == e_id(i) - s_id(i)
  IN  [diag_sizes |-> [k \in 0 .. (a.n_rows * b_size - 1) |->
                         (n_r_diag(k \div b_size) + n_diag_add) * b_size],
       offdiag_sizes |-> [k \in 0 .. (a.n_rows * b_size - 1) |->
                            (n_cols(k \div b_size) - n_r_diag(k \div b_size))
                              * b_size]]

\* An edge-list structure e is a record: e.n_rows (matrix->n_rows),
\* e.n_edges, e.edges (pairs of local ids) and e.g_e_id (the global id of
\* each local id, ghosts included).

\* One edge of the sequential walk of _compute_diag_sizes_native: each of
\* its two ends that is a row (local id below n_rows) gets one more
\* diagonal entry when the global id of the other end is in
\* [g_id_lb, g_id_ub), else one more off-diagonal entry.
NativeEdge(S, e, edge_id, g_id_lb, g_id_ub) ==
  LET ii == e.edges[edge_id + 1][1]
      jj == e.edges[edge_id + 1][2]
      g_ii == e.g_e_id[ii + 1]
      g_jj == e.g_e_id[jj + 1]
      Count(T, r, g) ==
        IF r < e.n_rows
        THEN IF g >= g_id_lb /\ g < g_id_ub
             THEN [T EXCEPT !.diag_sizes[r] = @ + 1]
             ELSE [T EXCEPT !.offdiag_sizes[r] = @ + 1]
        ELSE T
  IN  Count(Count(S, ii, g_jj), jj, g_ii)

\* The walk over edges edge_id .. n_edges - 1, in order.
RECURSIVE NativeWalk(_, _, _, _, _)
NativeWalk(S, e, edge_id, g_id_lb, g_id_ub) ==
  IF edge_id < e.n_edges
  THEN NativeWalk(NativeEdge(S, e, edge_id, g_id_lb, g_id_ub), e,
                  edge_id + 1, g_id_lb, g_id_ub)
  ELSE S

\* The walk that counts an edge only at its first end.
RECURSIVE NativeWalkFirstEnd(_, _, _, _, _)
NativeWalkFirstEnd(S, e, edge_id, g_id_lb, g_id_ub) ==
  IF edge_id < e.n_edges
  THEN LET ii == e.edges[edge_id + 1][1]
           g_jj == e.g_e_id[e.edges[edge_id + 1][2] + 1]
           T == IF ii < e.n_rows
                THEN IF g_jj >= g_id_lb /\ g_jj < g_id_ub
                     THEN [S EXCEPT !.diag_sizes[ii] = @ + 1]
                     ELSE [S EXCEPT !.offdiag_sizes[ii] = @ + 1]
                ELSE S
       IN  NativeWalkFirstEnd(T, e, edge_id + 1, g_id_lb, g_id_ub)
  ELSE S

\* The counts of the sequential walk with each edge counted at its first
\* end only.
compute_diag_sizes_native_first_end(e, have_diag) ==
  LET n_diag == IF have_diag THEN 1 ELSE 0
      g_id_lb == IF e.n_rows > 0 THEN e.g_e_id[1] ELSE 0
      g_id_ub == IF e.n_rows > 0
                 THEN (e.g_e_id[e.n_rows] + 1) % Pow2(GnumBits)
                 ELSE 0
      S0 == [diag_sizes |-> [i \in 0 .. (e.n_rows - 1) |-> n_diag],
             offdiag_sizes |-> [i \in 0 .. (e.n_rows - 1) |-> 0]]
  IN  NativeWalkFirstEnd(S0, e, 0, g_id_lb, g_id_ub)

\* _compute_diag_sizes_native(matrix, have_diag, n_edges, edges, g_e_id,
\* &diag_sizes, &offdiag_sizes) on a matrix without thread numbering.
compute_diag_sizes_native(e, have_diag) ==
  LET n_diag == IF have_diag THEN 1 ELSE 0
      g_id_lb == IF e.n_rows > 0 THEN e.g_e_id[1] ELSE 0
      g_id_ub == IF e.n_rows > 0
                 THEN (e.g_e_id[e.n_rows] + 1) % Pow2(GnumBits)
                 ELSE 0
      S0 == [diag_sizes |-> [i \in 0 .. (e.n_rows - 1) |-> n_diag],
             offdiag_sizes |-> [i \in 0 .. (e.n_rows - 1) |-> 0]]
  IN  NativeWalk(S0, e, 0, g_id_lb, g_id_ub)

\* The elements of a set of numbers in ascending order.
RECURSIVE SortedSeq(_)
SortedSeq(S) ==
  IF S = {} THEN << >>
  ELSE LET m == CHOOSE x \in S : \A y \in S : x <= y
       IN  <<m>> \o SortedSeq(S \ {m})

\* The column ids of rows i .. n - 1, row after row, each row ascending.
RECURSIVE ColIdsFrom(_, _, _)
ColIdsFrom(cols, i, n) ==
  IF i < n THEN SortedSeq(cols[i]) \o ColIdsFrom(cols, i + 1, n) ELSE << >>

\* The number of columns of rows 0 .. i - 1.
RECURSIVE RowOffset(_, _)
RowOffset(cols, i) ==
  IF i = 0 THEN 0 ELSE RowOffset(cols, i - 1) + Cardinality(cols[i - 1])

\* The structure of a matrix assembler of n rows whose row i has the
\* columns cols[i]: ids are local, ascending in each row, the ids of
\* distant columns (n and above) after those of the local ones.
Assembler(n, sep, cols) ==
  [n_rows |-> n,
   separate_diag |-> sep,
   row_index |-> [k \in 1 .. (n + 1) |-> RowOffset(cols, k - 1)],
   col_ids |-> ColIdsFrom(cols, 0, n)]

\* The structures tried: a separately stored diagonal is not among the
\* columns of its row.
Assemblers(max_rows, n_cols_ext) ==
  UNION { UNION { { Assembler(n, sep, cols) :
                      cols \in { c \in [0 .. (n - 1) ->
                                         SUBSET (0 .. (n_cols_ext - 1))] :
                                 sep => \A i \in 0 .. (n - 1) : i \notin c[i] } }
                  : sep \in BOOLEAN }
          : n \in 0 .. Min(max_rows, n_cols_ext) }

\* An edge list on n rows and g ghosts: the rows have the global ids
\* lb .. lb + n - 1 in order (cs_matrix_get_block_row_g_id), the ghosts
\* those of ghost_gids.
Native(n, g, lb, ghost_gids, edges) ==
  [n_rows |-> n,
   n_edges |-> Len(edges),
   edges |-> edges,
   g_e_id |-> [k \in 1 .. (n + g) |->
                 IF k <= n THEN lb + k - 1 ELSE ghost_gids[k - n]]]

\* Edge lists of at most MaxEdges edges between two distinct local ids.
EdgeLists(n_cols_ext) ==
  LET pairs == { p \in (0 .. (n_cols_ext - 1)) \X (0 .. (n_cols_ext - 1)) :
                 p[1] # p[2] }
  IN  UNION { [1 .. k -> pairs] : k \in 0 .. MaxEdges }

\* The edge lists tried: at least one row (_set_coeffs_ij asserts it),
\* the rows with global ids 1 .. n, the ghosts in turn just above the
\* owned range and the image of the first row (periodicity).
Natives(max_rows, n_cols_ext) ==
  UNION { { Native(n, n_cols_ext - n, 1,
                   [k \in 1 .. (n_cols_ext - n) |->
                      IF k % 2 = 1 THEN n + 1 ELSE 1],
                   edges) :
              edges \in EdgeLists(n_cols_ext) }
          : n \in 1 .. Min(max_rows, n_cols_ext) }

\* The structures of the matrix of the specifications that compute no count.
IdleAssembler == Assembler(2, FALSE, [i \in 0 .. 1 |-> {0, 1, 2}])

IdleNative == Native(2, 1, 1, <<3>>, << <<0, 1>>, <<1, 2>> >>)

NoSizes == [fn |-> "none"]

NoWalk == [state |-> "none"]

\* No call of _set_coeffs_ij is running.
NoFill == [state |-> "none"]

\* The call of one of the four functions on the structure at hand (the
\* native one on a matrix without thread numbering).
Compute(result) ==
  /\ sizes = NoSizes
  /\ walk = NoWalk
  /\ sizes' = result
  /\ UNCHANGED <<ma, native, numbering, walk, hypre_add_vars, matrix_vars,
                 amgx_vars, bft_err>>

ComputeAssembler ==
  Compute([fn |-> "_compute_diag_sizes_assembler", b_size |-> 1,
           counts |-> compute_diag_sizes_assembler(ma)])

ComputeAssemblerDb ==
  \E b_size \in 2 .. MaxBlock :
    Compute([fn |-> "_compute_diag_sizes_assembler_db", b_size |-> b_size,
             counts |-> compute_diag_sizes_assembler_db(ma, b_size)])

ComputeAssemblerB ==
  \E b_size \in 2 .. MaxBlock :
    Compute([fn |-> "_compute_diag_sizes_assembler_b", b_size |-> b_size,
             counts |-> compute_diag_sizes_assembler_b(ma, b_size)])

ComputeNative ==
  \E have_diag \in BOOLEAN :
    Compute([fn |-> "_compute_diag_sizes_native", have_diag |-> have_diag,
             counts |-> compute_diag_sizes_native(native, have_diag)])

(***************************************************************************)
(* The grouped traversal of _compute_diag_sizes_native: when the matrix    *)
(* numbering is of type CS_NUMBERING_THREADS, the groups are walked one    *)
(* after another and, inside a group, each thread walks its own range of   *)
(* edges (omp parallel for over t_id).  An increment `x[r] += 1` is a read *)
(* of x[r] followed by a write of the value read plus one; the steps of    *)
(* the threads of a group interleave freely.                               *)
(***************************************************************************)
CS_NUMBERING_DEFAULT == [tag |-> "CS_NUMBERING_DEFAULT"]

CS_NUMBERING_THREADS == [tag |-> "CS_NUMBERING_THREADS"]

\* group_index = matrix->numbering->group_index when the numbering is of
\* type CS_NUMBERING_THREADS, else NULL.
GroupIndex(nb) ==
  IF nb # NULL /\ nb.type = CS_NUMBERING_THREADS
  THEN nb.group_index
  ELSE NULL

\* The threads that walk edges: those of the numbering, or the calling
\* thread alone in the sequential walk.
WalkThreads(nb) ==
  IF GroupIndex(nb) # NULL THEN 0 .. (nb.n_threads - 1) ELSE {0}

WalkGroups(nb) ==
  IF GroupIndex(nb) # NULL THEN nb.n_groups ELSE 1

\* The bounds of the edge loop of thread t_id in group g_id:
\* group_index[(t_id*n_groups + g_id)*2] and the next entry; the sequential
\* loop runs over 0 .. n_edges - 1.
RangeStart(nb, e, t_id, g_id) ==
  IF GroupIndex(nb) # NULL
  THEN nb.group_index[(t_id * nb.n_groups + g_id) * 2 + 1]
  ELSE 0

RangeEnd(nb, e, t_id, g_id) ==
  IF GroupIndex(nb) # NULL
  THEN nb.group_index[(t_id * nb.n_groups + g_id) * 2 + 2]
  ELSE e.n_edges

\* The local id of end k (1: ii, 2: jj) of an edge, and the array element
\* the visit of that end increments: _diag_sizes when the global id of the
\* other end is in the owned range, _offdiag_sizes otherwise.
EdgeEnd(e, edge_id, k) == e.edges[edge_id + 1][k]

TargetArray(e, edge_id, k) ==
  LET g_other == e.g_e_id[EdgeEnd(e, edge_id, 3 - k) + 1]
      g_id_lb == e.g_e_id[1]
      g_id_ub == (e.g_e_id[e.n_rows] + 1) % Pow2(GnumBits)
  IN  IF g_other >= g_id_lb /\ g_other < g_id_ub
      THEN "diag_sizes"
      ELSE "offdiag_sizes"

\* Where a thread stands once it has gone through the tests that involve
\* no shared array: in front of the increment of the next end that is a
\* row, or at the end of its range in the group.
RECURSIVE Settle(_, _, _, _, _, _)
Settle(nb, e, t_id, g_id, edge_id, k) ==
  IF edge_id >= RangeEnd(nb, e, t_id, g_id)
  THEN [g_id |-> g_id, at |-> "end", edge_id |-> edge_id, k |-> 1, tmp |-> 0]
  ELSE IF k > 2
       THEN Settle(nb, e, t_id, g_id, edge_id + 1, 1)
       ELSE IF EdgeEnd(e, edge_id, k) < e.n_rows
            THEN [g_id |-> g_id, at |-> "read", edge_id |-> edge_id,
                  k |-> k, tmp |-> 0]
            ELSE Settle(nb, e, t_id, g_id, edge_id, k + 1)

\* The entry of _compute_diag_sizes_native up to the edge loops: the
\* counts are set to n_diag and 0 and the traversal is chosen.
WalkBegin ==
  /\ walk = NoWalk
  /\ native.n_rows > 0
  /\ \E have_diag \in BOOLEAN :
       walk' = [state |-> "running",
                have_diag |-> have_diag,
                counts |->
                  [diag_sizes |-> [i \in 0 .. (native.n_rows - 1) |->
                                     IF have_diag THEN 1 ELSE 0],
                   offdiag_sizes |-> [i \in 0 .. (native.n_rows - 1) |-> 0]],
                th |-> [t_id \in WalkThreads(numbering) |->
                          Settle(numbering, native, t_id, 0,
                                 RangeStart(numbering, native, t_id, 0), 1)]]
  /\ UNCHANGED <<ma, native, numbering, sizes, hypre_add_vars, matrix_vars,
                 amgx_vars, bft_err>>

WalkStep(W) ==
  /\ walk' = W
  /\ UNCHANGED <<ma, native, numbering, sizes, hypre_add_vars, matrix_vars,
                 amgx_vars, bft_err>>

\* The read of `x[r] += 1` by thread t_id.
ThreadRead(t_id) ==
  /\ walk.state = "running"
  /\ t_id \in DOMAIN walk.th
  /\ walk.th[t_id].at = "read"
  /\ LET p == walk.th[t_id]
         r == EdgeEnd(native, p.edge_id, p.k)
         x == TargetArray(native, p.edge_id, p.k)
     IN  WalkStep([walk EXCEPT !.th[t_id].at = "write",
                               !.th[t_id].tmp = walk.counts[x][r]])

\* Its write, and the thread's way to its next increment.
ThreadWrite(t_id) ==
  /\ walk.state = "running"
  /\ t_id \in DOMAIN walk.th
  /\ walk.th[t_id].at = "write"
  /\ LET p == walk.th[t_id]
         r == EdgeEnd(native, p.edge_id, p.k)
         x == TargetArray(native, p.edge_id, p.k)
     IN  WalkStep([walk EXCEPT
                     !.counts[x][r] = p.tmp + 1,
                     !.th[t_id] = Settle(numbering, native, t_id, p.g_id,
                                         p.edge_id, p.k + 1)])

\* The same with the threads released into the next group at once.
GroupNotJoined(W, g_id) == TRUE

\* The end of the parallel loop of group g_id: every thread has finished
\* its range of the group.
GroupJoined(W, g_id) ==
  \A u \in DOMAIN W.th :
    \/ W.th[u].g_id > g_id
    \/ W.th[u].g_id = g_id /\ W.th[u].at = "end"

\* Thread t_id enters the parallel loop of the next group.
ThreadNextGroup(t_id) ==
  /\ walk.state = "running"
  /\ t_id \in DOMAIN walk.th
  /\ walk.th[t_id].at = "end"
  /\ walk.th[t_id].g_id + 1 < WalkGroups(numbering)
  /\ GroupJoined(walk, walk.th[t_id].g_id)
  /\ LET g_id == walk.th[t_id].g_id + 1
     IN  WalkStep([walk EXCEPT
                     !.th[t_id] =
                       Settle(numbering, native, t_id, g_id,
                              RangeStart(numbering, native, t_id, g_id), 1)])

\* The return of the function once the last group is over.
WalkReturn ==
  /\ walk.state = "running"
  /\ \A u \in DOMAIN walk.th :
       /\ walk.th[u].at = "end"
       /\ walk.th[u].g_id + 1 >= WalkGroups(numbering)
  /\ walk' = [walk EXCEPT !.state = "returned"]
  /\ sizes' = [fn |-> "_compute_diag_sizes_native",
               have_diag |-> walk.have_diag,
               counts |-> walk.counts]
  /\ UNCHANGED <<ma, native, numbering, hypre_add_vars, matrix_vars,
                 amgx_vars, bft_err>>

\* The edge ranges a group index may hold for n_edges edges: the empty
\* range and every non-empty one.
EdgeRanges(n_edges) ==
  {<<0, 0>>} \cup { r \in (0 .. n_edges) \X (0 .. n_edges) : r[1] < r[2] }

\* The thread numbering of n_threads threads and n_groups groups whose
\* cells hold the ranges of cells, in the order of group_index.
ThreadNumbering(n_threads, n_groups, cells) ==
  [type |-> CS_NUMBERING_THREADS,
   n_threads |-> n_threads,
   n_groups |-> n_groups,
   group_index |-> [i \in 1 .. (2 * n_threads * n_groups) |->
                      cells[(i + 1) \div 2][2 - (i % 2)]]]

\* The number of edge visits the ranges of cells add up to.
RECURSIVE Visits(_, _)
Visits(cells, i) ==
  IF i > Len(cells)
  THEN 0
  ELSE cells[i][2] - cells[i][1] + Visits(cells, i + 1)

\* The numberings tried on an edge list: none, one of another type, and
\* the thread numberings of the bounds, conflict-free or not, complete or
\* not, with at most MaxExtraVisits visits more than there are edges.
Numberings(n_edges) ==
  {NULL, [type |-> CS_NUMBERING_DEFAULT]}
  \cup UNION { { ThreadNumbering(MaxThreads, n_groups, cells) :
                   cells \in { c \in [1 .. (MaxThreads * n_groups)
                                        -> EdgeRanges(n_edges)] :
                               Visits(c, 1) <= n_edges + MaxExtraVisits } }
               : n_groups \in 1 .. MaxGroups }

(***************************************************************************)
(* Life cycle of a HYPRE matrix: the type switch, the value-insertion      *)
(* sessions, set_coefficients, release and destroy.                        *)
(*                                                                         *)
(* The calls are those the matrix API makes one at a time: a session is    *)
(* opened by the assembler values creation (which calls init), receives    *)
(* adds and is closed by its finalization (which calls begin and end); the *)
(* other calls come between two sessions.                                  *)
(***************************************************************************)
CS_MATRIX_SCALAR_SYM == 1
CS_MATRIX_N_FILL_TYPES == 6

FillTypes == 0 .. (CS_MATRIX_N_FILL_TYPES - 1)

\* The coefficients and the function pointers of the type the matrix had
\* before the switch (cs_matrix.c).
PreviousCoeffs == [tag |-> "previous"]

PreviousVtable ==
  [set_coefficients |-> "previous",
   release_coefficients |-> "previous",
   destroy_coefficients |-> "previous",
   assembler_values_create |-> "previous"]

PreviousMultiply == [f \in FillTypes |-> [x \in 0 .. 1 |-> "previous"]]

\* The function pointers cs_matrix_set_type_hypre assigns.
HypreVtable ==
  [set_coefficients |-> "_set_coeffs_ij",
   release_coefficients |-> "_release_coeffs_ij",
   destroy_coefficients |-> "_destroy_coeffs_ij",
   assembler_values_create |-> "_assembler_values_create_hypre"]

\* The table with both slots of the fill types of mft[] set.
HypreMultiplyBothSlots ==
  [f \in FillTypes |->
     [x \in 0 .. 1 |->
        IF f \in {CS_MATRIX_SCALAR, CS_MATRIX_SCALAR_SYM}
        THEN "_mat_vec_p_parcsr" ELSE "NULL"]]

\* matrix->vector_multiply as cs_matrix_set_type_hypre leaves it: every
\* slot NULL, then slot 0 of the fill types of mft[] set.
HypreMultiply ==
  [f \in FillTypes |->
     [x \in 0 .. 1 |->
        IF f \in {CS_MATRIX_SCALAR, CS_MATRIX_SCALAR_SYM} /\ x = 0
        THEN "_mat_vec_p_parcsr" ELSE "NULL"]]

\* BFT_MALLOC(coeffs, 1, cs_matrix_coeffs_hypre_t), the memset and
\* matrix_state = 0: structure number id, holding no handle yet.
NewCoeffs(id) ==
  [tag |-> "hypre", id |-> id, matrix_state |-> 0,
   hm |-> 0, hx |-> 0, hy |-> 0]

\* matrix->coeffs once the structure of number id is freed: the pointer is
\* left as it was.
FreedCoeffs(id) == [tag |-> "freed", id |-> id]

\* What a call works on and the calls it has made so far.
LifeMachine ==
  [coeffs |-> coeffs, n_coeffs |-> n_coeffs, l_range |-> l_range,
   vector_multiply |-> vector_multiply, handles |-> handles,
   n_objects |-> n_objects, values |-> hm, given |-> contrib,
   events |-> << >>, assemble_ierr |-> 0, status |-> 0]

\* The codes a call of the HYPRE library returns: 0, or an error code.
HypreStatuses == {0, 1}

\* The machine of a call during which HYPRE_IJMatrixAssemble returns ierr.
LifeMachineWith(ierr) == [LifeMachine EXCEPT !.assemble_ierr = ierr]

Call(name) == [ev |-> "call", name |-> name]

Bind(name) == [ev |-> "bind", name |-> name]

Event(M, e) == [M EXCEPT !.events = Append(@, e)]

RECURSIVE Events(_, _)
Events(M, es) ==
  IF es = << >> THEN M ELSE Events(Event(M, Head(es)), Tail(es))

\* HYPRE_IJMatrixCreate(comm, ilower, iupper, ilower, iupper, &hm) followed
\* by the calls that size and initialize the new matrix.
HypreMatrixCreate(M, ilower, iupper, fn, counts) ==
  LET id == M.n_objects + 1
      M1 == [M EXCEPT
               !.n_objects = id,
               !.coeffs.hm = id,
               !.values = EmptyBag,
               !.given = EmptyBag,
               !.handles = @ \cup { [kind |-> "IJMatrix", id |-> id,
                                     owner |-> M.coeffs.id,
                                     ilower |-> ilower, iupper |-> iupper,
                                     counts |-> counts] }]
  IN  Events(M1, << Call("HYPRE_IJMatrixCreate"),
                    Call("HYPRE_IJMatrixSetObjectType"),
                    Call(fn),
                    Call("HYPRE_IJMatrixSetDiagOffdSizes"),
                    Call("HYPRE_IJMatrixSetMaxOffProcElmts"),
                    Call("HYPRE_IJMatrixSetOMPFlag"),
                    Call("HYPRE_IJMatrixInitialize_v2") >>)

\* HYPRE_IJVectorCreate(comm, ilower, iupper, &(coeffs->hx)) and the same
\* for hy, each with its type and off-process settings; then the two
\* HYPRE_IJVectorInitialize.
HypreVectorsCreate(M, ilower, iupper) ==
  LET x == M.n_objects + 1
      y == M.n_objects + 2
      V(id) == [kind |-> "IJVector", id |-> id, owner |-> M.coeffs.id,
                ilower |-> ilower, iupper |-> iupper]
      M1 == [M EXCEPT !.n_objects = y,
                      !.coeffs.hx = x,
                      !.coeffs.hy = y,
                      !.handles = @ \cup {V(x), V(y)}]
  IN  Events(M1, << Call("HYPRE_IJVectorCreate"),
                    Call("HYPRE_IJVectorCreate"),
                    Call("HYPRE_IJVectorInitialize"),
                    Call("HYPRE_IJVectorInitialize") >>)

\* HYPRE_IJMatrixDestroy(h) or HYPRE_IJVectorDestroy(h).
HypreDestroy(M, name, h) ==
  Event([M EXCEPT !.handles = { o \in @ : o.id # h }], Call(name))

\* The choice made on the extra-diagonal block size alone.
DiagSizesVariantByEbSize(dbs, ebs) ==
  IF ebs = 1 THEN "_compute_diag_sizes_assembler"
  ELSE "_compute_diag_sizes_assembler_b"

\* The three-way choice of _assembler_values_init between the functions
\* that count the entries.
DiagSizesVariant(dbs, ebs) ==
  IF dbs = 1 THEN "_compute_diag_sizes_assembler"
  ELSE IF ebs = 1 THEN "_compute_diag_sizes_assembler_db"
  ELSE "_compute_diag_sizes_assembler_b"

DiagSizes(fn, a, dbs) ==
  IF fn = "_compute_diag_sizes_assembler"
  THEN compute_diag_sizes_assembler(a)
  ELSE IF fn = "_compute_diag_sizes_assembler_db"
  THEN compute_diag_sizes_assembler_db(a, dbs)
  ELSE compute_diag_sizes_assembler_b(a, dbs)

\* _assembler_values_init(matrix, db_size, eb_size) on a matrix of fill
\* type ft whose assembler has structure a and owns the rows of range.
assembler_values_init(M, ft, a, range, dbs, ebs) ==
  LET M1 == IF M.coeffs = NULL
            THEN [M EXCEPT !.coeffs = NewCoeffs(M.n_coeffs + 1),
                           !.n_coeffs = @ + 1]
            ELSE M
  IN  IF M1.coeffs.matrix_state = 0
      THEN LET fn == DiagSizesVariant(dbs, ebs)
               M2 == HypreMatrixCreate([M1 EXCEPT !.l_range = range],
                                       dbs * range[1], dbs * range[2] - 1,
                                       fn, DiagSizes(fn, a, dbs))
           IN  IF M2.vector_multiply[ft][0] = "NULL"
               THEN [M2 EXCEPT !.vector_multiply[ft][0] = "_mat_vec_p_parcsr"]
               ELSE M2
      ELSE M1

\* The range of the block rows taken for that of the scalar rows.
VectorRangeOfBlocks(dbs, range) == <<range[1], range[2] - 1>>

\* The range of the two vectors _assembler_values_end creates.
VectorRange(dbs, range) == <<dbs * range[1], dbs * range[2] - 1>>

\* An end that creates the two vectors whatever the state.
assembler_values_end_unguarded(M, dbs) ==
  LET M1 == [Event(M, Call("HYPRE_IJMatrixAssemble"))
               EXCEPT !.status = M.assemble_ierr]
      r == VectorRange(dbs, M.l_range)
  IN  [HypreVectorsCreate(M1, r[1], r[2]) EXCEPT !.coeffs.matrix_state = 1]

\* _assembler_values_end(matrix), matrix->db_size[0] being dbs: the code
\* HYPRE_IJMatrixAssemble returns is not looked at.
assembler_values_end(M, dbs) ==
  LET M1 == [Event(M, Call("HYPRE_IJMatrixAssemble"))
               EXCEPT !.status = M.assemble_ierr]
      r == VectorRange(dbs, M.l_range)
      M2 == IF M.coeffs.matrix_state = 0
            THEN HypreVectorsCreate(M1, r[1], r[2])
            ELSE M1
  IN  [M2 EXCEPT !.coeffs.matrix_state = 1]

\* The <<row, col, value>> of the edge list e, the diagonal values da and
\* the extra-diagonal values xa, each once: the diagonal, then both
\* directions of each edge for the ends that are rows.
RECURSIVE SetCoeffsEdges(_, _, _, _)
SetCoeffsEdges(e, symmetric, xa, e_id) ==
  IF e_id < e.n_edges
  THEN LET ii == e.edges[e_id + 1][1]
           jj == e.edges[e_id + 1][2]
           g_ii == e.g_e_id[ii + 1]
           g_jj == e.g_e_id[jj + 1]
           v1 == IF symmetric THEN xa[e_id + 1] ELSE xa[2 * e_id + 1]
           v2 == IF symmetric THEN xa[e_id + 1] ELSE xa[2 * e_id + 2]
       IN  (IF ii < e.n_rows THEN << <<g_ii, g_jj, v1>> >> ELSE << >>)
           \o (IF jj < e.n_rows THEN << <<g_jj, g_ii, v2>> >> ELSE << >>)
           \o SetCoeffsEdges(e, symmetric, xa, e_id + 1)
  ELSE << >>

SetCoeffsDiag(e, da) ==
  [i \in 1 .. e.n_rows |-> <<e.g_e_id[i], e.g_e_id[i], da[i]>>]

\* The entries one pass of the diagonal loop of _set_coeffs_ij puts in the
\* chunk from row ii on, the chunk holding ic entries already.
RECURSIVE DiagChunkFrom(_, _, _, _)
DiagChunkFrom(e, da, ii, ic) ==
  IF ii < e.n_rows /\ ic < max_chunk_size
  THEN << <<e.g_e_id[ii + 1], e.g_e_id[ii + 1], da[ii + 1]>> >>
       \o DiagChunkFrom(e, da, ii + 1, ic + 1)
  ELSE << >>

\* The entries of edge e_id: one for each end that is a row.
EdgeEntries(e, symmetric, xa, e_id) ==
  LET ii == e.edges[e_id + 1][1]
      jj == e.edges[e_id + 1][2]
      g_ii == e.g_e_id[ii + 1]
      g_jj == e.g_e_id[jj + 1]
      v1 == IF symmetric THEN xa[e_id + 1] ELSE xa[2 * e_id + 1]
      v2 == IF symmetric THEN xa[e_id + 1] ELSE xa[2 * e_id + 2]
  IN  (IF ii < e.n_rows THEN << <<g_ii, g_jj, v1>> >> ELSE << >>)
      \o (IF jj < e.n_rows THEN << <<g_jj, g_ii, v2>> >> ELSE << >>)

\* The entries one pass of an edge loop puts in the chunk from edge e_id
\* on, the chunk holding ic entries already.
RECURSIVE EdgeChunkFrom(_, _, _, _, _)
EdgeChunkFrom(e, symmetric, xa, e_id, ic) ==
  IF e_id < e.n_edges /\ ic < max_chunk_size
  THEN LET c == EdgeEntries(e, symmetric, xa, e_id)
       IN  c \o EdgeChunkFrom(e, symmetric, xa, e_id + 1, ic + Len(c))
  ELSE << >>

\* The number of edges that pass goes through.
RECURSIVE EdgeChunkEdges(_, _, _, _, _)
EdgeChunkEdges(e, symmetric, xa, e_id, ic) ==
  IF e_id < e.n_edges /\ ic < max_chunk_size
  THEN 1 + EdgeChunkEdges(e, symmetric, xa, e_id + 1,
                          ic + Len(EdgeEntries(e, symmetric, xa, e_id)))
  ELSE 0

\* Variant of NextStart that goes on after the entries of the chunk.
NextStartAfterChunk(start, ic) == start + ic

\* The start index the chunk loops of _set_coeffs_ij set after a chunk of
\* ic entries that began at start: s_id = ic, s_e_id = ic.
NextStart(start, ic) == ic

\* The diagonal loop from s_id on, for at most fuel chunks: the entries
\* submitted, the number of chunks, and whether the loop ended.
RECURSIVE DiagLoop(_, _, _, _)
DiagLoop(e, da, s_id, fuel) ==
  IF ~(s_id < e.n_rows)
  THEN [entries |-> << >>, n_chunks |-> 0, ended |-> TRUE]
  ELSE IF fuel = 0
  THEN [entries |-> << >>, n_chunks |-> 0, ended |-> FALSE]
  ELSE LET c == DiagChunkFrom(e, da, s_id, 0)
           R == DiagLoop(e, da, NextStart(s_id, Len(c)), fuel - 1)
       IN  [entries |-> c \o R.entries, n_chunks |-> 1 + R.n_chunks,
            ended |-> R.ended]

\* The same for the edge loop, symmetric or not.
RECURSIVE EdgeLoop(_, _, _, _, _)
EdgeLoop(e, symmetric, xa, s_e_id, fuel) ==
  IF ~(s_e_id < e.n_edges)
  THEN [entries |-> << >>, n_chunks |-> 0, ended |-> TRUE]
  ELSE IF fuel = 0
  THEN [entries |-> << >>, n_chunks |-> 0, ended |-> FALSE]
  ELSE LET c == EdgeChunkFrom(e, symmetric, xa, s_e_id, 0)
           R == EdgeLoop(e, symmetric, xa, NextStart(s_e_id, Len(c)),
                         fuel - 1)
       IN  [entries |-> c \o R.entries, n_chunks |-> 1 + R.n_chunks,
            ended |-> R.ended]

\* Does _set_coeffs_ij return within MaxChunks chunks of each loop?
SetCoeffsReturns(e, symmetric, da, xa) ==
  /\ DiagLoop(e, da, 0, MaxChunks).ended
  /\ EdgeLoop(e, symmetric, xa, 0, MaxChunks).ended

\* The first part of _set_coeffs_ij: the matrix is created if the
\* structure holds none.
set_coeffs_create(M, e, dbs) ==
  LET have_diag == TRUE
      range == <<e.g_e_id[1], e.g_e_id[e.n_rows] + 1>>
  IN  IF M.coeffs.matrix_state = 0
      THEN HypreMatrixCreate([M EXCEPT !.l_range = range],
                             dbs * range[1], dbs * range[2] - 1,
                             "_compute_diag_sizes_native",
                             compute_diag_sizes_native(e, have_diag))
      ELSE M

\* HYPRE_IJMatrixAddToValues(hm, ic, NULL, rows, cols, aij) on one chunk.
set_coeffs_submit(M, chunk) ==
  Event([M EXCEPT !.values = @ (+) BagOfSeq(chunk),
                  !.given = @ (+) BagOfSeq(chunk)],
        Call("HYPRE_IJMatrixAddToValues"))

RECURSIVE AddToValuesCalls(_)
AddToValuesCalls(n) ==
  IF n = 0 THEN << >>
  ELSE << Call("HYPRE_IJMatrixAddToValues") >> \o AddToValuesCalls(n - 1)

\* _set_coeffs_ij(matrix, symmetric, copy, n_edges, edges, da, xa) with da
\* and xa given, matrix->db_size[0] being dbs, for a call that returns.
set_coeffs_ij(M, e, dbs, symmetric, da, xa) ==
  LET M1 == set_coeffs_create(M, e, dbs)
      d == DiagLoop(e, da, 0, MaxChunks)
      x == EdgeLoop(e, symmetric, xa, 0, MaxChunks)
      M2 == Events([M1 EXCEPT
                      !.values = @ (+) BagOfSeq(d.entries)
                                   (+) BagOfSeq(x.entries),
                      !.given = @ (+) BagOfSeq(d.entries)
                                  (+) BagOfSeq(x.entries)],
                   AddToValuesCalls(d.n_chunks + x.n_chunks))
  IN  assembler_values_end(M2, dbs)

\* _release_coeffs_ij(matrix).
release_coeffs_ij(M) ==
  IF M.coeffs # NULL /\ M.coeffs.matrix_state > 0
  THEN LET M1 == HypreDestroy(M, "HYPRE_IJMatrixDestroy", M.coeffs.hm)
           M2 == HypreDestroy(M1, "HYPRE_IJVectorDestroy", M.coeffs.hx)
           M3 == HypreDestroy(M2, "HYPRE_IJVectorDestroy", M.coeffs.hy)
       IN  [M3 EXCEPT !.coeffs.matrix_state = 0,
                      !.values = EmptyBag, !.given = EmptyBag]
  ELSE M

\* _destroy_coeffs_ij(matrix).
destroy_coeffs_ij(M) ==
  IF M.coeffs # NULL
  THEN LET M1 == IF M.coeffs.matrix_state > 0
                 THEN [HypreDestroy(M, "HYPRE_IJMatrixDestroy", M.coeffs.hm)
                         EXCEPT !.coeffs.matrix_state = 0,
                                !.values = EmptyBag, !.given = EmptyBag]
                 ELSE M
       IN  [Event(M1, Call("BFT_FREE"))
              EXCEPT !.coeffs = FreedCoeffs(M.coeffs.id)]
  ELSE M

\* A type switch that leaves the previous coefficients as they are.
keep_coefficients(M, fn) == M

\* matrix->destroy_coefficients(matrix) through the pointer fn; the
\* function of the previous type frees its structure and resets the pointer.
destroy_coefficients(M, fn) ==
  IF fn = "_destroy_coeffs_ij"
  THEN destroy_coeffs_ij(Event(M, Call(fn)))
  ELSE [Event(M, Call(fn)) EXCEPT !.coeffs = NULL]

\* The state a call leaves, as the machine M it ended with tells.
LifeBecomes(op, M) ==
  /\ coeffs' = M.coeffs
  /\ n_coeffs' = M.n_coeffs
  /\ l_range' = M.l_range
  /\ vector_multiply' = M.vector_multiply
  /\ handles' = M.handles
  /\ n_objects' = M.n_objects
  /\ hm' = M.values
  /\ contrib' = M.given
  /\ mcall' = [op |-> op, events |-> M.events, status |-> M.status]
  /\ UNCHANGED <<mixedint, hypre_fail_in, prealloc_vars, amgx_vars, bft_err>>

\* The values given to the call of _set_coeffs_ij that runs chunk by
\* chunk: each diagonal and extra-diagonal value differs from the others.
FillDa(e) == [i \in 1 .. e.n_rows |-> 10 + i]

FillXa(e) == [k \in 1 .. (2 * e.n_edges) |-> 20 + k]

\* The edge lists of the chunked call: n rows and two ghosts, at most
\* max_edges edges, each between two rows, between a row and a ghost (in
\* either order) or between the two ghosts.
FillEdgeKinds(n) ==
  (IF n > 1 THEN { <<0, n - 1>> } ELSE {})
  \cup { <<n - 1, n>>, <<n, 0>>, <<n, n + 1>> }

FillNatives(max_rows, max_edges) ==
  UNION { UNION { { Native(n, 2, 1, <<n + 1, n + 2>>, edges) :
                      edges \in [1 .. k -> FillEdgeKinds(n)] } :
                  k \in 0 .. max_edges } :
          n \in 1 .. max_rows }

\* Where _set_coeffs_ij goes after the diagonal loop, and after an edge
\* loop.
AfterDiagLoop(e) == IF 0 < e.n_edges THEN "edges" ELSE "end"

\* _set_coeffs_ij up to its first loop: the matrix is created if the
\* structure holds none, the buffers are allocated.
FillBegin ==
  /\ Running /\ mav = NULL
  /\ vtable.set_coefficients = "_set_coeffs_ij"
  /\ coeffs.tag = "hypre"
  /\ fill = NoFill
  /\ (coeffs.matrix_state = 0 => n_objects + 3 <= MaxObjects)
  /\ \E symmetric \in BOOLEAN :
       /\ fill_type' = IF symmetric THEN CS_MATRIX_SCALAR_SYM
                       ELSE CS_MATRIX_SCALAR
       /\ fill' = [state |-> "diag", symmetric |-> symmetric, s_id |-> 0,
                   n_chunks |-> 0,
                   chunk |-> [loop |-> "none", start |-> 0, ic |-> 0,
                              n_done |-> 0, next |-> 0]]
  /\ LifeBecomes("_set_coeffs_ij", set_coeffs_create(LifeMachine, native, 1))
  /\ db_size' = 1
  /\ UNCHANGED <<matrix_type, vtable, mav, n_contrib>>

\* One pass of the while loop over the rows: a chunk is filled from s_id
\* on and submitted, s_id is set, and the loop test is made again.
FillDiagChunk ==
  /\ Running
  /\ fill.state = "diag"
  /\ fill.n_chunks < MaxChunks
  /\ LET c == DiagChunkFrom(native, FillDa(native), fill.s_id, 0)
         next == NextStart(fill.s_id, Len(c))
         over == ~(next < native.n_rows)
     IN  /\ LifeBecomes("_set_coeffs_ij", set_coeffs_submit(LifeMachine, c))
         /\ fill' = [fill EXCEPT
                       !.state = IF over THEN AfterDiagLoop(native) ELSE @,
                       !.s_id = IF over THEN 0 ELSE next,
                       !.n_chunks = IF over THEN 0 ELSE @ + 1,
                       !.chunk = [loop |-> "diag", start |-> fill.s_id,
                                  ic |-> Len(c), n_done |-> Len(c),
                                  next |-> next]]
  /\ UNCHANGED <<db_size, fill_type, matrix_type, vtable, mav, n_contrib>>

\* One pass of the while loop over the edges, symmetric or not.
FillEdgeChunk ==
  /\ Running
  /\ fill.state = "edges"
  /\ fill.n_chunks < MaxChunks
  /\ LET c == EdgeChunkFrom(native, fill.symmetric, FillXa(native),
                            fill.s_id, 0)
         next == NextStart(fill.s_id, Len(c))
         over == ~(next < native.n_edges)
     IN  /\ LifeBecomes("_set_coeffs_ij", set_coeffs_submit(LifeMachine, c))
         /\ fill' = [fill EXCEPT
                       !.state = IF over THEN "end" ELSE @,
                       !.s_id = IF over THEN 0 ELSE next,
                       !.n_chunks = IF over THEN 0 ELSE @ + 1,
                       !.chunk = [loop |-> "edges", start |-> fill.s_id,
                                  ic |-> Len(c),
                                  n_done |-> EdgeChunkEdges(native,
                                               fill.symmetric,
                                               FillXa(native), fill.s_id, 0),
                                  next |-> next]]
  /\ UNCHANGED <<db_size, fill_type, matrix_type, vtable, mav, n_contrib>>

\* The end of _set_coeffs_ij: the buffers are freed and the assembly is
\* finalized by _assembler_values_end.
FillEnd ==
  /\ Running
  /\ fill.state = "end"
  /\ \E ierr \in HypreStatuses :
       LifeBecomes("_set_coeffs_ij",
                   assembler_values_end(LifeMachineWith(ierr), db_size))
  /\ fill' = [fill EXCEPT !.state = "done"]
  /\ n_contrib' = n_contrib + 1
  /\ UNCHANGED <<db_size, fill_type, matrix_type, vtable, mav>>

\* cs_matrix_set_type_hypre(matrix).
cs_matrix_set_type_hypre ==
  /\ Running /\ mav = NULL
  /\ fill = NoFill
  /\ coeffs.tag # "freed"
  /\ n_coeffs < MaxCoeffs
  /\ LET M1 == IF coeffs # NULL
               THEN destroy_coefficients(LifeMachine,
                                         vtable.destroy_coefficients)
               ELSE LifeMachine
         M2 == [Event(M1, Call("BFT_MALLOC"))
                  EXCEPT !.coeffs = NewCoeffs(M1.n_coeffs + 1),
                         !.n_coeffs = @ + 1]
         M3 == Events(M2, << Bind("set_coefficients"),
                             Bind("release_coefficients"),
                             Bind("destroy_coefficients"),
                             Bind("assembler_values_create"),
                             Bind("get_diagonal"),
                             Bind("vector_multiply"),
                             Bind("copy_diagonal") >>)
     IN  LifeBecomes("cs_matrix_set_type_hypre",
                     [M3 EXCEPT !.vector_multiply = HypreMultiply])
  /\ matrix_type' = "hypre"
  /\ vtable' = HypreVtable
  /\ UNCHANGED <<db_size, fill_type, n_contrib, mav>>
  /\ UNCHANGED fill

\* The block sizes <<db_size[0], eb_size[0]>> of a session and the fill
\* type cs_matrix_assembler_values_init gives the matrix for them.
BlockSizes == { <<1, 1>>, <<2, 1>>, <<2, 2>> }

AssemblerFillType(b) ==
  IF b[1] = 1 THEN CS_MATRIX_SCALAR
  ELSE IF b[2] = 1 THEN CS_MATRIX_BLOCK_D
  ELSE CS_MATRIX_BLOCK

\* The range of rows the assembler of structure a owns.
AssemblerRange(a) == <<1, 1 + a.n_rows>>

\* matrix->assembler_values_create(matrix, db_size, eb_size): the session
\* is created, which calls _assembler_values_init.
assembler_values_create_hypre ==
  /\ Running /\ mav = NULL
  /\ vtable.assembler_values_create = "_assembler_values_create_hypre"
  /\ coeffs.tag = "hypre"
  /\ (coeffs.matrix_state = 0 => n_objects + 3 <= MaxObjects)
  /\ \E b \in BlockSizes :
       /\ db_size' = b[1]
       /\ fill_type' = AssemblerFillType(b)
       /\ mav' = [tag |-> "mav", db_size |-> b[1], eb_size |-> b[2]]
       /\ LifeBecomes("_assembler_values_init",
                      assembler_values_init(LifeMachine,
                                            AssemblerFillType(b), ma,
                                            AssemblerRange(ma), b[1], b[2]))
  /\ UNCHANGED <<matrix_type, vtable, n_contrib>>
  /\ UNCHANGED fill

\* The entries a session adds: one on the diagonal of the first owned
\* row, one off it.
LifeEntries ==
  { <<l_range[1], l_range[1], 1>>, <<l_range[1], l_range[2], 2>> }

\* One add of the open session: a value, a block or a diagonal block,
\* according to the fill type.
AssemblerValuesAdd ==
  /\ Running /\ mav # NULL
  /\ n_contrib < MaxLifeAdds
  /\ \E e \in LifeEntries :
       LET stride == IF db_size = 1 THEN 1
                     ELSE IF fill_type = CS_MATRIX_BLOCK \/ e[1] = e[2]
                     THEN db_size * db_size
                     ELSE 1
           vals == [q \in 1 .. stride |-> e[3]]
       IN  /\ assembler_values_add_g(1, stride, <<e[1]>>, <<e[2]>>, vals,
                                     FALSE)
           /\ contrib' = contrib (+) Contributed(1, stride, <<e[1]>>,
                                                 <<e[2]>>, vals)
  /\ n_contrib' = n_contrib + 1
  /\ mcall' = [op |-> "_assembler_values_add_g", events |-> << >>,
               status |-> IF hypre_fail_in = 0 THEN 1 ELSE 0]
  /\ UNCHANGED <<mixedint, l_range, db_size, fill_type, matrix_type, vtable,
                 vector_multiply, coeffs, n_coeffs, mav, handles, n_objects,
                 prealloc_vars, amgx_vars>>
  /\ UNCHANGED fill

\* The finalization of the open session: _assembler_values_begin, which
\* does nothing, then _assembler_values_end.
AssemblerValuesFinalize ==
  /\ Running /\ mav # NULL
  /\ \E ierr \in HypreStatuses :
       LifeBecomes("_assembler_values_end",
                   assembler_values_end(LifeMachineWith(ierr), db_size))
  /\ mav' = NULL
  /\ UNCHANGED <<db_size, fill_type, matrix_type, vtable, n_contrib>>
  /\ UNCHANGED fill

\* matrix->set_coefficients(matrix, symmetric, copy, n_edges, edges, da,
\* xa) on a scalar matrix, the fill type set by cs_matrix_set_coefficients.
SetCoefficients ==
  /\ Running /\ mav = NULL
  /\ vtable.set_coefficients = "_set_coeffs_ij"
  /\ coeffs.tag = "hypre"
  /\ (coeffs.matrix_state = 0 => n_objects + 3 <= MaxObjects)
  /\ n_contrib < MaxLifeAdds
  /\ \E symmetric \in BOOLEAN, ierr \in HypreStatuses :
       /\ SetCoeffsReturns(native, symmetric,
                           [i \in 1 .. native.n_rows |-> 1],
                           [i \in 1 .. (2 * native.n_edges) |-> 2])
       /\ fill_type' = IF symmetric THEN CS_MATRIX_SCALAR_SYM
                       ELSE CS_MATRIX_SCALAR
       /\ LifeBecomes("_set_coeffs_ij",
                      set_coeffs_ij(LifeMachineWith(ierr), native, 1,
                                    symmetric,
                                    [i \in 1 .. native.n_rows |-> 1],
                                    [i \in 1 .. (2 * native.n_edges) |-> 2]))
  /\ db_size' = 1
  /\ n_contrib' = n_contrib + 1
  /\ UNCHANGED <<matrix_type, vtable, mav>>
  /\ UNCHANGED fill

\* matrix->release_coefficients(matrix).
ReleaseCoefficients ==
  /\ Running /\ mav = NULL
  /\ vtable.release_coefficients = "_release_coeffs_ij"
  /\ coeffs.tag = "hypre"
  /\ LifeBecomes("_release_coeffs_ij", release_coeffs_ij(LifeMachine))
  /\ UNCHANGED <<db_size, fill_type, matrix_type, vtable, n_contrib, mav>>
  /\ UNCHANGED fill

\* matrix->destroy_coefficients(matrix) as the destruction of the matrix
\* calls it: no call on the matrix follows.
DestroyCoefficients ==
  /\ Running /\ mav = NULL
  /\ vtable.destroy_coefficients = "_destroy_coeffs_ij"
  /\ coeffs.tag = "hypre"
  /\ LifeBecomes("_destroy_coeffs_ij", destroy_coeffs_ij(LifeMachine))
  /\ UNCHANGED <<db_size, fill_type, matrix_type, vtable, n_contrib, mav>>
  /\ UNCHANGED fill

\* The coefficient the IJ matrix of content B holds at (r, c): the sum of
\* the values added there.
RECURSIVE IJMatrixSum(_, _)
IJMatrixSum(B, S) ==
  IF S = {} THEN 0
  ELSE LET x == CHOOSE y \in S : TRUE
       IN  x[3] * B[x] + IJMatrixSum(B, S \ {x})

IJMatrixValue(B, r, c) ==
  IJMatrixSum(B, { x \in DOMAIN B : x[1] = r /\ x[2] = c })

\* HYPRE_IJMatrixGetValues(hm, nrows, ncols, rows, cols, values) with
\* ncols[i] = 1 for every i: values[i] is written for the rows i < nrows,
\* from position (rows[i], cols[i]).
IJMatrixGetValues(B, nrows, rows, cols) ==
  [i \in 0 .. (nrows - 1) |-> IJMatrixValue(B, rows[i], cols[i])]

\* The values a buffer holds where nothing was written into it: those the
\* caller left in da, or those of fresh memory.
BufferValues == {0, 9}

\* _copy_diagonal_ij(matrix, da) on a matrix of m_n_rows (block) rows,
\* matrix->db_size[0] being dbs: the content of da at return, before being
\* what the buffer aij held before the call.
copy_diagonal_ij(M, dbs, m_n_rows, before) ==
  LET b_size == dbs
      ilower == b_size * M.l_range[1]
      n_rows == m_n_rows * b_size
      rows == [ii \in 0 .. (n_rows - 1) |-> ilower + ii]
      cols == [ii \in 0 .. (n_rows - 1) |-> ilower + ii]
      aij == IJMatrixGetValues(M.values, m_n_rows, rows, cols)
  IN  [ii \in 0 .. (n_rows - 1) |->
         IF ii \in DOMAIN aij THEN aij[ii] ELSE before]

\* matrix->copy_diagonal(matrix, da) on an assembled matrix.
CopyDiagonal ==
  /\ Running /\ mav = NULL
  /\ matrix_type = "hypre"
  /\ coeffs.tag = "hypre"
  /\ coeffs.matrix_state = 1
  /\ \E before \in BufferValues :
       mcall' = [op |-> "_copy_diagonal_ij",
                 events |-> << Call("HYPRE_IJMatrixGetValues") >>,
                 status |-> 0,
                 da |-> copy_diagonal_ij(LifeMachine, db_size,
                                         l_range[2] - l_range[1], before)]
  /\ UNCHANGED <<hypre_add_vars, matrix_type, vtable, vector_multiply,
                 coeffs, n_coeffs, mav, handles, n_objects, prealloc_vars,
                 amgx_vars, bft_err>>
  /\ UNCHANGED fill

(***************************************************************************)
(* AMGX adapter: contexts, the library's handles, and the calls.           *)
(***************************************************************************)
\* Content of malloc'ed memory and of handles not yet assigned.
Uninit == [tag |-> "uninitialized"]

Slots == 1 .. MaxSlots

\* The name the caller passes for the system held in slot s.
SysName(s) == [tag |-> "system", id |-> s]

\* max_iters of the built-in configuration string of cs_sles_amgx_get_config.
DefaultMaxIters == 100

DefaultConfig == [text |-> "default", max_iters |-> DefaultMaxIters]

\* Configuration strings a user gives to cs_sles_amgx_set_config.
UserConfigs == { [text |-> "user", max_iters |-> MaxIts] }

HookContexts == { NULL, [tag |-> "hook"] }

\* The resources configuration strings: the two built-in defaults of
\* cs_sles_amgx_get_config_resources, and one a user gives.
ResourceConfigMPI ==
  [text |-> "communicator=MPI, min_rows_latency_hiding=10000"]

ResourceConfigSerial == [text |-> "min_rows_latency_hiding=10000"]

UserResourceConfigs == { [text |-> "user resources"] }

\* The resources _amgx_initialize creates: AMGX_config_create on a string
\* literal, then AMGX_resources_create with that configuration.
amgx_initialize_resources ==
  [tag |-> "resources", config |-> ResourceConfigMPI]

\* Matrices passed to setup and solve: storage type and diagonal block size.
Matrices ==
  { [type |-> "CS_MATRIX_CSR", db_size |-> 1],
    [type |-> "CS_MATRIX_MSR", db_size |-> 1],
    [type |-> "CS_MATRIX_NATIVE", db_size |-> 1],
    [type |-> "CS_MATRIX_CSR", db_size |-> 3] }

RotationModes == { "CS_HALO_ROTATION_COPY", "CS_HALO_ROTATION_IGNORE" }

SolveStatuses ==
  { "AMGX_SOLVE_SUCCESS", "AMGX_SOLVE_FAILED", "AMGX_SOLVE_DIVERGED",
    "AMGX_SOLVE_NOT_CONVERGED" }

\* Library calls of setup whose return code is checked.
SetupFailures ==
  { "AMGX_config_create", "AMGX_matrix_create", "AMGX_matrix_upload_all",
    "AMGX_solver_create", "AMGX_solver_setup" }

\* Library calls of solve whose return code is checked.
SolveFailures == { "AMGX_vector_upload", "AMGX_vector_download" }

NoFailure == "none"

\* Variant of FirstSystem that initializes the library for the second system
\* too; the lifecycle property must tell it from the code's test.
FirstSystemOrSecond(n) == n < 2

\* The test of cs_sles_amgx_create: is the library to be initialized?
FirstSystem(n) == n < 1

\* The test of cs_sles_amgx_destroy, on the decremented counter.
LastSystem(n) == n = 0

\* The structure cs_sles_amgx_create returns.
NewContext(context) ==
  [ n_setups |-> 0,
    n_solves |-> 0,
    n_iterations_last |-> 0,
    n_iterations_min |-> 0,
    n_iterations_max |-> 0,
    n_iterations_tot |-> 0,
    hook_context |-> context,
    setup_data |-> NULL,
    solver_config_file |-> NULL,
    solver_config_string |-> NULL,
    amgx_mode |-> "AMGX_mode_dDDI",
    pin_memory |-> TRUE,
    solver_config |-> Uninit ]

\* cs_sles_amgx_get_config: the string, set to the default if none is set.
get_config(c) ==
  IF c.solver_config_file = NULL /\ c.solver_config_string = NULL
  THEN [c EXCEPT !.solver_config_string = DefaultConfig]
  ELSE c

\* _load_solver_config: the configuration handle, from the file if one is
\* set, else from the string.
load_solver_config(c) ==
  IF c.solver_config_file = NULL
  THEN LET c1 == get_config(c)
       IN  [c1 EXCEPT !.solver_config = c1.solver_config_string]
  ELSE [c EXCEPT !.solver_config = c.solver_config_file]

\* Variant of MatrixUnusable that tests the block size only.
MatrixUnusableByBlockSize(a) == a.db_size > 1

\* The test of cs_sles_amgx_setup on the matrix.
MatrixUnusable(a) ==
  \/ a.db_size > 1
  \/ (a.type # "CS_MATRIX_CSR" /\ a.type # "CS_MATRIX_MSR")

\* A state of one context and of the library, as the calls below change it:
\* c the context, matrices and solvers the live handles, n_handles the
\* handles created, err the fatal error if one was raised.
Machine(c, matrices, solvers, n, err) ==
  [c |-> c, matrices |-> matrices, solvers |-> solvers, n_handles |-> n,
   err |-> err]

\* cs_sles_amgx_setup(context, name, a, verbosity); fail names the library
\* call that returns an error code, if any.  The build is one in which
\* cs_lnum_t is int (in the others the function refuses every matrix).  A
\* setup on a context that holds setup data writes the new handles over the
\* old ones, which stay live in the library.
cs_sles_amgx_setup(M, name, a, fail) ==
  LET c0 == M.c
      c1 == IF c0.setup_data = NULL
            THEN [c0 EXCEPT !.setup_data =
                               [solver |-> Uninit, matrix |-> Uninit]]
            ELSE c0
      c2 == IF c1.n_setups < 1 THEN load_solver_config(c1) ELSE c1
      h  == M.n_handles + 1
      c3 == [c2 EXCEPT !.setup_data.matrix = [tag |-> "matrix", id |-> h]]
      c4 == [c3 EXCEPT !.setup_data.solver = [tag |-> "solver", id |-> h]]
      c5 == [c4 EXCEPT !.n_setups = @ + 1]
      m3 == M.matrices \cup {[tag |-> "matrix", id |-> h]}
      s4 == M.solvers \cup {[tag |-> "solver", id |-> h]}
  IN  IF c1.n_setups < 1 /\ fail = "AMGX_config_create"
      THEN Machine(c1, M.matrices, M.solvers, M.n_handles,
                   bft_error(fail, NoName))
      ELSE IF MatrixUnusable(a)
      THEN Machine(c2, M.matrices, M.solvers, M.n_handles,
                   bft_error("cs_sles_amgx_setup", name))
      ELSE IF fail = "AMGX_matrix_create"
      THEN Machine(c2, M.matrices, M.solvers, M.n_handles,
                   bft_error(fail, NoName))
      ELSE IF fail \in {"AMGX_matrix_upload_all", "AMGX_solver_create"}
      THEN Machine(c3, m3, M.solvers, h, bft_error(fail, NoName))
      ELSE IF fail = "AMGX_solver_setup"
      THEN Machine(c4, m3, s4, h, bft_error(fail, NoName))
      ELSE Machine(c5, m3, s4, h, M.err)

\* The switch of cs_sles_amgx_solve on the library's status; cvg starts as
\* CS_SLES_ITERATING.
ConvergenceState(solve_status, its, c) ==
  CASE solve_status = "AMGX_SOLVE_SUCCESS" -> "CS_SLES_CONVERGED"
    [] solve_status = "AMGX_SOLVE_FAILED" -> "CS_SLES_DIVERGED"
    [] solve_status = "AMGX_SOLVE_DIVERGED" ->
         IF its >= c.n_iterations_max THEN "CS_SLES_MAX_ITERATION"
         ELSE "CS_SLES_DIVERGED"
    [] OTHER -> "CS_SLES_ITERATING"

\* Variant of UpdateIterations without the first solve's minimum.
UpdateIterationsNoFirstMin(c, its) ==
  LET c2 == [c EXCEPT !.n_iterations_last = its,
                      !.n_iterations_tot = @ + its]
      c3 == IF c2.n_iterations_min > its
            THEN [c2 EXCEPT !.n_iterations_min = its] ELSE c2
      c4 == IF c3.n_iterations_max < its
            THEN [c3 EXCEPT !.n_iterations_max = its] ELSE c3
  IN  [c4 EXCEPT !.n_solves = @ + 1]

\* "Update return values" of cs_sles_amgx_solve.
UpdateIterations(c, its) ==
  LET c1 == IF c.n_solves = 0 THEN [c EXCEPT !.n_iterations_min = its]
            ELSE c
      c2 == [c1 EXCEPT !.n_iterations_last = its,
                       !.n_iterations_tot = @ + its]
      c3 == IF c2.n_iterations_min > its
            THEN [c2 EXCEPT !.n_iterations_min = its] ELSE c2
      c4 == IF c3.n_iterations_max < its
            THEN [c3 EXCEPT !.n_iterations_max = its] ELSE c3
  IN  [c4 EXCEPT !.n_solves = @ + 1]

\* What a call of cs_sles_amgx_solve leaves: the machine, the handles given
\* to AMGX_solver_solve (ext, NULL if it was not reached), whether the call
\* returned, and the values it returned.
SolveResult(M, ext, returned, cvg, n_iter) ==
  [M |-> M, ext |-> ext, returned |-> returned, cvg |-> cvg,
   n_iter |-> n_iter]

\* Variant of solve_return that raises a fatal error unless the library
\* reports success.
solve_return_success_only(M, ext, solve_status, its) ==
  IF solve_status = "AMGX_SOLVE_SUCCESS"
  THEN SolveResult([M EXCEPT !.c = UpdateIterations(M.c, its)], ext, TRUE,
                   ConvergenceState(solve_status, its, M.c), its)
  ELSE SolveResult([M EXCEPT !.err = bft_error("AMGX_solver_solve", NoName)],
                   ext, FALSE, "", 0)

\* The end of cs_sles_amgx_solve, from the library's status on: the state
\* mapped from the status is returned, the iteration count is written to
\* *n_iter and the counters are updated.
solve_return(M, ext, solve_status, its) ==
  SolveResult([M EXCEPT !.c = UpdateIterations(M.c, its)], ext, TRUE,
              ConvergenceState(solve_status, its, M.c), its)

\* The result R of a solve with the calls it made on the vectors and on
\* the solver, in order.
WithCalls(R, calls) ==
  [f \in DOMAIN R \cup {"calls"} |-> IF f = "calls" THEN calls ELSE R[f]]

\* The test that refuses any rotation mode but the copy.
RotationRefusedAnyBlockSize(rotation_mode, a) ==
  rotation_mode # "CS_HALO_ROTATION_COPY"

\* The test of cs_sles_amgx_solve on the rotation mode.
RotationRefused(rotation_mode, a) ==
  rotation_mode # "CS_HALO_ROTATION_COPY" /\ a.db_size > 1

\* cs_sles_amgx_solve(context, name, a, ..., rotation_mode, ...); status and
\* its are what the library reports for this solve, fail and sfail the
\* library calls of setup and of solve that return an error code, if any.
cs_sles_amgx_solve(M, name, a, rotation_mode, status, its, fail, sfail) ==
  LET M1 == IF M.c.setup_data = NULL
            THEN cs_sles_amgx_setup(M, name, a, fail)
            ELSE M
      sd == M1.c.setup_data
      ext == [solver |-> sd.solver, matrix |-> sd.matrix]
      vectors == << "AMGX_vector_create", "AMGX_vector_create" >>
      solved == << "AMGX_vector_upload", "AMGX_solver_solve",
                   "AMGX_vector_download" >>
  IN  IF M1.err # NoError
      THEN WithCalls(SolveResult(M1, NULL, FALSE, "", 0), << >>)
      ELSE IF RotationRefused(rotation_mode, a)
      THEN WithCalls(SolveResult([M1 EXCEPT
                                    !.err = bft_error("cs_sles_amgx_solve",
                                                      name)],
                                 NULL, FALSE, "", 0),
                     << >>)
      ELSE IF sfail = "AMGX_vector_upload"
      THEN WithCalls(SolveResult([M1 EXCEPT !.err = bft_error(sfail, NoName)],
                                 NULL, FALSE, "", 0),
                     vectors \o << "AMGX_vector_upload" >>)
      ELSE IF sfail = "AMGX_vector_download"
      THEN WithCalls(SolveResult([M1 EXCEPT !.err = bft_error(sfail, NoName)],
                                 ext, FALSE, "", 0),
                     vectors \o << "AMGX_vector_upload" >> \o solved)
      ELSE WithCalls(solve_return(M1, ext, status, its),
                     vectors \o << "AMGX_vector_upload" >> \o solved
                     \o << "AMGX_vector_destroy", "AMGX_vector_destroy" >>)

\* Variant of cs_sles_amgx_free that destroys the handles and keeps the
\* setup data.
free_keeping_setup_data(M) ==
  LET sd == M.c.setup_data
  IN  IF sd # NULL
      THEN [M EXCEPT !.solvers = @ \ {sd.solver},
                     !.matrices = @ \ {sd.matrix}]
      ELSE M

\* Variant of cs_sles_amgx_free that also resets the solve counters.
free_resetting_counters(M) ==
  LET sd == M.c.setup_data
      c0 == [M.c EXCEPT !.setup_data = NULL, !.n_solves = 0,
                        !.n_iterations_tot = 0]
  IN  IF sd # NULL
      THEN [M EXCEPT !.solvers = @ \ {sd.solver},
                     !.matrices = @ \ {sd.matrix},
                     !.c = c0]
      ELSE M

\* A call of the AMGX library or of the memory management, on arg.
LibCall(name, arg) == [call |-> name, arg |-> arg]

\* The blocks of memory BFT_FREE is called on.
SetupDataMemory == [tag |-> "setup_data"]

ContextMemory == [tag |-> "context"]

StringMemory == [tag |-> "string"]

\* The effect of the calls on the library's handles and on the context.
RECURSIVE ApplyCalls(_, _)
ApplyCalls(M, calls) ==
  IF calls = << >>
  THEN M
  ELSE LET x == Head(calls)
           M1 == IF x.call = "AMGX_solver_destroy"
                 THEN [M EXCEPT !.solvers = @ \ {x.arg}]
                 ELSE IF x.call = "AMGX_matrix_destroy"
                 THEN [M EXCEPT !.matrices = @ \ {x.arg}]
                 ELSE IF x.call = "BFT_FREE" /\ x.arg = SetupDataMemory
                 THEN [M EXCEPT !.c.setup_data = NULL]
                 ELSE M
       IN  ApplyCalls(M1, Tail(calls))

\* The calls of a free that destroys the matrix before the solver.
free_calls_matrix_first(c) ==
  LET sd == c.setup_data
  IN  IF sd # NULL
      THEN << LibCall("AMGX_matrix_destroy", sd.matrix),
              LibCall("AMGX_solver_destroy", sd.solver),
              LibCall("BFT_FREE", SetupDataMemory) >>
      ELSE << >>

\* The calls cs_sles_amgx_free(context) makes, in order.
free_calls(c) ==
  LET sd == c.setup_data
  IN  IF sd # NULL
      THEN << LibCall("AMGX_solver_destroy", sd.solver),
              LibCall("AMGX_matrix_destroy", sd.matrix),
              LibCall("BFT_FREE", SetupDataMemory) >>
      ELSE << >>

\* cs_sles_amgx_free(context).
cs_sles_amgx_free(M) == ApplyCalls(M, free_calls(M.c))

\* The calls cs_sles_amgx_destroy(&context) makes on a context, in order:
\* the strings, the configuration handle if a setup created one, the
\* calls of cs_sles_amgx_free, the context.
destroy_calls(c) ==
  << LibCall("BFT_FREE", StringMemory), LibCall("BFT_FREE", StringMemory) >>
  \o (IF c.n_setups >= 1
      THEN << LibCall("AMGX_config_destroy", c.solver_config) >>
      ELSE << >>)
  \o free_calls(c)
  \o << LibCall("BFT_FREE", ContextMemory) >>

\* The mean cs_sles_amgx_log prints for CS_LOG_PERFORMANCE.
LogMean(c) ==
  IF c.n_solves > 0 THEN c.n_iterations_tot \div c.n_solves ELSE 0

(***************************************************************************)
(* AMGX adapter: the calls as actions, one call at a time.                 *)
(***************************************************************************)
MachineOf(s) == Machine(ctx[s], amgx_matrices, amgx_solvers, n_handles,
                        bft_err)

\* The state after a call that changed context s into machine M.
Becomes(s, M) ==
  /\ ctx' = [ctx EXCEPT ![s] = M.c]
  /\ amgx_matrices' = M.matrices
  /\ amgx_solvers' = M.solvers
  /\ n_handles' = M.n_handles
  /\ bft_err' = M.err

Threads == 1 .. MaxSlots

AllIdle == \A t \in Threads : pc[t] = "idle"

\* c = cs_sles_amgx_create(context), the result stored in the free slot s;
\* init_fail: AMGX_initialize returns an error code; call: the record of the
\* call kept in last.
Create(s, context, init_fail, call) ==
  /\ Running /\ AllIdle
  /\ ctx[s] = NULL
  /\ init_fail => FirstSystem(n_amgx_systems)
  /\ IF init_fail
     THEN /\ bft_err' = bft_error("AMGX_initialize", NoName)
          /\ UNCHANGED <<n_amgx_systems, amgx_initialized, amgx_resources,
                         ctx, its_hist>>
     ELSE /\ amgx_initialized' = IF FirstSystem(n_amgx_systems)
                                 THEN amgx_initialized + 1
                                 ELSE amgx_initialized
          /\ amgx_resources' = IF FirstSystem(n_amgx_systems)
                               THEN amgx_initialize_resources
                               ELSE amgx_resources
          /\ n_amgx_systems' = n_amgx_systems + 1
          /\ ctx' = [ctx EXCEPT ![s] = NewContext(context)]
          /\ its_hist' = [its_hist EXCEPT ![s] = << >>]
          /\ UNCHANGED bft_err
  /\ last' = call
  /\ UNCHANGED <<amgx_matrices, amgx_solvers, n_handles, pc>>
  /\ UNCHANGED <<hypre_vars, resource_config_string>>

cs_sles_amgx_create(s) ==
  \E context \in HookContexts, init_fail \in BOOLEAN :
    Create(s, context, init_fail, [op |-> "create", slot |-> s])

\* d = cs_sles_amgx_copy(context) with context the pointer of slot s, the
\* result stored in the free slot d.
cs_sles_amgx_copy(s, d) ==
    /\ s # d
    /\ IF ctx[s] # NULL
       THEN \E init_fail \in BOOLEAN :
              Create(d, ctx[s].hook_context, init_fail,
                     [op |-> "copy", slot |-> d, from |-> s])
       ELSE /\ Running /\ AllIdle
            /\ ctx[d] = NULL
            /\ last' = [op |-> "copy", slot |-> d, from |-> s]
            /\ UNCHANGED <<hypre_vars, amgx_res_vars,
                           amgx_lib_vars, amgx_sys_vars, pc,
                           bft_err>>

\* Variant of cs_sles_amgx_destroy without the test of the pointer: the
\* counter is updated, and the library finalized, for a NULL pointer too.
destroy_without_null_test(s) ==
    /\ Running /\ AllIdle
    /\ LET M == IF ctx[s] # NULL THEN cs_sles_amgx_free(MachineOf(s))
                ELSE [matrices |-> amgx_matrices, solvers |-> amgx_solvers]
       IN  /\ ctx' = [ctx EXCEPT ![s] = NULL]
           /\ amgx_matrices' = M.matrices
           /\ amgx_solvers' = M.solvers
           /\ n_amgx_systems' = n_amgx_systems - 1
           /\ amgx_initialized' = IF LastSystem(n_amgx_systems - 1)
                                  THEN amgx_initialized - 1
                                  ELSE amgx_initialized
           /\ amgx_resources' = IF LastSystem(n_amgx_systems - 1)
                                THEN NULL
                                ELSE amgx_resources
           /\ its_hist' = [its_hist EXCEPT ![s] = << >>]
    /\ last' = [op |-> "destroy", slot |-> s,
                calls |-> IF ctx[s] # NULL THEN destroy_calls(ctx[s])
                          ELSE << >>]
    /\ UNCHANGED <<n_handles, pc, bft_err>>
    /\ UNCHANGED <<hypre_vars, resource_config_string>>

\* cs_sles_amgx_destroy(&context) with context the pointer of slot s.  The
\* strings and the configuration handle go with the context.
cs_sles_amgx_destroy(s) ==
    /\ Running /\ AllIdle
    /\ IF ctx[s] # NULL
       THEN LET M == cs_sles_amgx_free(MachineOf(s))
            IN  /\ ctx' = [ctx EXCEPT ![s] = NULL]
                /\ amgx_matrices' = M.matrices
                /\ amgx_solvers' = M.solvers
                /\ n_amgx_systems' = n_amgx_systems - 1
                /\ amgx_initialized' = IF LastSystem(n_amgx_systems - 1)
                                       THEN amgx_initialized - 1
                                       ELSE amgx_initialized
                /\ amgx_resources' = IF LastSystem(n_amgx_systems - 1)
                                     THEN NULL
                                     ELSE amgx_resources
                /\ its_hist' = [its_hist EXCEPT ![s] = << >>]
       ELSE UNCHANGED <<ctx, amgx_matrices, amgx_solvers, n_amgx_systems,
                        amgx_initialized, amgx_resources, its_hist>>
    /\ last' = [op |-> "destroy", slot |-> s,
                calls |-> IF ctx[s] # NULL THEN destroy_calls(ctx[s])
                          ELSE << >>]
    /\ UNCHANGED <<n_handles, pc, bft_err>>
    /\ UNCHANGED <<hypre_vars, resource_config_string>>

\* cs_sles_amgx_set_config_resources(config).
cs_sles_amgx_set_config_resources ==
  \E config \in UserResourceConfigs :
    /\ Running /\ AllIdle
    /\ resource_config_string' = config
    /\ last' = [op |-> "set_config_resources"]
    /\ UNCHANGED <<hypre_vars, amgx_lib_vars, amgx_resources, amgx_sys_vars,
                   pc, bft_err>>

\* cs_sles_amgx_get_config_resources(): the string, set to the default of
\* the run (parallel or not) if none is set.
cs_sles_amgx_get_config_resources ==
  \E n_ranks \in {1, 2} :
    /\ Running /\ AllIdle
    /\ resource_config_string' =
         IF resource_config_string = NULL
         THEN IF n_ranks > 1 THEN ResourceConfigMPI ELSE ResourceConfigSerial
         ELSE resource_config_string
    /\ last' = [op |-> "get_config_resources"]
    /\ UNCHANGED <<hypre_vars, amgx_lib_vars, amgx_resources, amgx_sys_vars,
                   pc, bft_err>>

\* cs_sles_amgx_set_config(context, config).
cs_sles_amgx_set_config(s) ==
  \E config \in UserConfigs :
    /\ Running /\ AllIdle
    /\ ctx[s] # NULL
    /\ ctx' = [ctx EXCEPT ![s].solver_config_string = config]
    /\ last' = [op |-> "set_config", slot |-> s]
    /\ UNCHANGED <<hypre_vars, amgx_res_vars,
                   amgx_lib_vars, amgx_matrices, amgx_solvers,
                   n_handles, its_hist, pc, bft_err>>

\* The paths of configuration files a user gives.
UserConfigFiles == { [path |-> "user.json", max_iters |-> MaxIts] }

\* cs_sles_amgx_set_config_file(context, path).
cs_sles_amgx_set_config_file(s) ==
  \E path \in UserConfigFiles :
    /\ Running /\ AllIdle
    /\ ctx[s] # NULL
    /\ ctx' = [ctx EXCEPT ![s].solver_config_file = path]
    /\ last' = [op |-> "set_config_file", slot |-> s]
    /\ UNCHANGED <<hypre_vars, amgx_res_vars,
                   amgx_lib_vars, amgx_matrices, amgx_solvers,
                   n_handles, its_hist, pc, bft_err>>

\* The mode cs_sles_amgx_set_use_device selects, in a build whose cs_real_t
\* is double.
DeviceMode(use_device) ==
  IF use_device THEN "AMGX_mode_dDDI" ELSE "AMGX_mode_hDDI"

\* cs_sles_amgx_set_use_device(context, use_device).
cs_sles_amgx_set_use_device(s) ==
  \E use_device \in BOOLEAN :
    /\ Running /\ AllIdle
    /\ ctx[s] # NULL
    /\ ctx' = [ctx EXCEPT ![s].amgx_mode = DeviceMode(use_device)]
    /\ last' = [op |-> "set_use_device", slot |-> s]
    /\ UNCHANGED <<hypre_vars, amgx_res_vars,
                   amgx_lib_vars, amgx_matrices, amgx_solvers,
                   n_handles, its_hist, pc, bft_err>>

\* cs_sles_amgx_set_pin_memory(context, pin_memory).
cs_sles_amgx_set_pin_memory(s) ==
  \E pin_memory \in BOOLEAN :
    /\ Running /\ AllIdle
    /\ ctx[s] # NULL
    /\ ctx' = [ctx EXCEPT ![s].pin_memory = pin_memory]
    /\ last' = [op |-> "set_pin_memory", slot |-> s]
    /\ UNCHANGED <<hypre_vars, amgx_res_vars,
                   amgx_lib_vars, amgx_matrices, amgx_solvers,
                   n_handles, its_hist, pc, bft_err>>

\* Solves that returned, over the contexts in the slots.
RECURSIVE TotalSolves(_)
TotalSolves(n) ==
  IF n = 0 THEN 0 ELSE Len(its_hist[n]) + TotalSolves(n - 1)

\* cs_sles_amgx_setup(context, name, a, verbosity).
Setup(s) ==
    /\ Running /\ AllIdle
    /\ ctx[s] # NULL
    /\ n_handles < MaxSetups
    /\ \E a \in Matrices, fail \in SetupFailures \cup {NoFailure} :
         /\ Becomes(s, cs_sles_amgx_setup(MachineOf(s), SysName(s), a, fail))
         /\ last' = [op |-> "setup", slot |-> s, a |-> a, fail |-> fail]
    /\ UNCHANGED <<hypre_vars, amgx_res_vars, amgx_lib_vars, its_hist, pc>>

\* The maximum iteration count of the solver of context c: the one of the
\* configuration the solver is (or will be, at the first setup) created with.
SolverMaxIters(c) ==
  IF c.n_setups < 1 THEN load_solver_config(c).solver_config.max_iters
  ELSE c.solver_config.max_iters

\* What the library does in one call of solve for context c: one of its
\* calls returns an error code, or the solver reports a status and an
\* iteration count, at most its maximum iteration count.
LibraryOutcomes(c) ==
  { [fail |-> f, status |-> "AMGX_SOLVE_SUCCESS", its |-> 0] :
      f \in SolveFailures \cup
            (IF c.setup_data = NULL THEN SetupFailures ELSE {}) }
  \cup { [fail |-> NoFailure, status |-> st, its |-> i] :
           st \in SolveStatuses, i \in 0 .. Min(MaxIts, SolverMaxIters(c)) }

\* cvg = cs_sles_amgx_solve(context, name, a, ..., &n_iter, ...).
Solve(s) ==
    /\ Running /\ AllIdle
    /\ ctx[s] # NULL
    /\ TotalSolves(MaxSlots) < MaxSolves
    /\ ctx[s].setup_data = NULL => n_handles < MaxSetups
    /\ \E a \in Matrices, o \in LibraryOutcomes(ctx[s]) :
       \E rotation_mode \in RotationModes :
         LET R == cs_sles_amgx_solve(MachineOf(s), SysName(s), a,
                                     rotation_mode, o.status, o.its,
                                     o.fail, o.fail)
         IN  /\ Becomes(s, R.M)
             /\ its_hist' = IF R.returned
                            THEN [its_hist EXCEPT ![s] = Append(@, o.its)]
                            ELSE its_hist
             /\ last' = [op |-> "solve", slot |-> s,
                         db_size |-> a.db_size,
                         rotation_mode |-> rotation_mode,
                         fail |-> o.fail, calls |-> R.calls,
                         configured |-> (ctx[s].setup_data = NULL),
                         status |-> o.status, its |-> o.its,
                         ext |-> R.ext, returned |-> R.returned,
                         cvg |-> R.cvg, n_iter |-> R.n_iter]
    /\ UNCHANGED <<hypre_vars, amgx_res_vars, amgx_lib_vars, pc>>

\* cs_sles_amgx_free(context).
Free(s) ==
    /\ Running /\ AllIdle
    /\ ctx[s] # NULL
    /\ Becomes(s, cs_sles_amgx_free(MachineOf(s)))
    /\ last' = [op |-> "free", slot |-> s, calls |-> free_calls(ctx[s])]
    /\ UNCHANGED <<hypre_vars, amgx_res_vars, amgx_lib_vars, its_hist, pc>>

(***************************************************************************)
(* AMGX adapter: create and destroy calls of several threads, thread t     *)
(* working on the system of slot t; a step is the test of the counter, the *)
(* call of _amgx_initialize or _amgx_finalize, or the counter's update     *)
(* with the thread's own work on its context.                              *)
(***************************************************************************)
Goto(t, label) == pc' = [pc EXCEPT ![t] = label]

\* cs_sles_amgx_create: if (_n_amgx_systems < 1)
CreateTest(t) ==
  /\ Running
  /\ pc[t] = "idle"
  /\ ctx[t] = NULL
  /\ amgx_initialized < MaxDepth
  /\ Goto(t, IF FirstSystem(n_amgx_systems) THEN "create_initialize"
             ELSE "create_count")
  /\ UNCHANGED <<hypre_vars, amgx_res_vars,
                 amgx_lib_vars, amgx_sys_vars, last, bft_err>>

\* cs_sles_amgx_create: _amgx_initialize();
CreateInitialize(t) ==
  /\ Running
  /\ pc[t] = "create_initialize"
  /\ \E init_fail \in BOOLEAN :
       IF init_fail
       THEN /\ bft_err' = bft_error("AMGX_initialize", NoName)
            /\ UNCHANGED <<amgx_initialized, amgx_resources, pc>>
       ELSE /\ amgx_initialized' = amgx_initialized + 1
            /\ amgx_resources' = amgx_initialize_resources
            /\ Goto(t, "create_count")
            /\ UNCHANGED bft_err
  /\ UNCHANGED <<hypre_vars, resource_config_string, n_amgx_systems,
                 amgx_sys_vars, last>>

\* cs_sles_amgx_create: _n_amgx_systems += 1; and the rest of the function.
CreateCount(t) ==
  /\ Running
  /\ pc[t] = "create_count"
  /\ n_amgx_systems' = n_amgx_systems + 1
  /\ \E context \in HookContexts :
       ctx' = [ctx EXCEPT ![t] = NewContext(context)]
  /\ Goto(t, "idle")
  /\ UNCHANGED <<hypre_vars, amgx_res_vars,
                 amgx_initialized, amgx_matrices, amgx_solvers,
                 n_handles, its_hist, last, bft_err>>

\* cs_sles_amgx_destroy: the function up to _n_amgx_systems -= 1;
DestroyCount(t) ==
  /\ Running
  /\ pc[t] = "idle"
  /\ ctx[t] # NULL
  /\ amgx_initialized > -MaxDepth
  /\ LET M == cs_sles_amgx_free(MachineOf(t))
     IN  /\ ctx' = [ctx EXCEPT ![t] = NULL]
         /\ amgx_matrices' = M.matrices
         /\ amgx_solvers' = M.solvers
  /\ n_amgx_systems' = n_amgx_systems - 1
  /\ Goto(t, "destroy_test")
  /\ UNCHANGED <<hypre_vars, amgx_res_vars,
                 amgx_initialized, n_handles, its_hist, last,
                 bft_err>>

\* cs_sles_amgx_destroy: if (_n_amgx_systems == 0)
DestroyTest(t) ==
  /\ Running
  /\ pc[t] = "destroy_test"
  /\ Goto(t, IF LastSystem(n_amgx_systems) THEN "destroy_finalize"
             ELSE "idle")
  /\ UNCHANGED <<hypre_vars, amgx_res_vars,
                 amgx_lib_vars, amgx_sys_vars, last, bft_err>>

\* cs_sles_amgx_destroy: _amgx_finalize();
DestroyFinalize(t) ==
  /\ Running
  /\ pc[t] = "destroy_finalize"
  /\ amgx_initialized' = amgx_initialized - 1
  /\ amgx_resources' = NULL
  /\ Goto(t, "idle")
  /\ UNCHANGED <<hypre_vars, resource_config_string, n_amgx_systems,
                 amgx_sys_vars, last, bft_err>>

(***************************************************************************)
(* cs_sles_amgx_setup: the column ids uploaded with the matrix.            *)
(***************************************************************************)
\* Conversion of a global id to the library's int (IntBits wide): the
\* assignment of a cs_gnum_t to an int keeps the low bits, read as signed.
ToInt(g) ==
  LET m == g % Pow2(IntBits)
  IN  IF m >= Pow2(IntBits - 1) THEN m - Pow2(IntBits) ELSE m

\* The largest value of int.
INT_MAX == Pow2(IntBits - 1) - 1

\* Global ids of the ghost columns of a rank that owns rows
\* [base, base + n_rows): the row before and the row after, where they exist.
GhostIds(base, n_rows) ==
  (IF base > 0 THEN {base - 1} ELSE {})
  \cup (IF base + n_rows < Pow2(GnumBits) THEN {base + n_rows} ELSE {})

\* First owned global rows tried: the first row, the last rows int holds,
\* and the last rows cs_gnum_t holds.
UploadBases(n_rows) ==
  { 0, INT_MAX + 1 - n_rows, INT_MAX, Pow2(GnumBits) - n_rows }

\* cs_matrix_get_block_row_g_id(n_rows, halo): the global id of each local
\* row, then those of the ghost columns.
block_row_g_id(base, n_rows, ghosts) ==
  [j \in 0 .. (n_rows + Len(ghosts) - 1) |->
     IF j < n_rows THEN base + j ELSE ghosts[j - n_rows + 1]]

\* A CSR structure from the set of columns of each row: a_row_index and
\* a_col_id, the columns of a row in increasing order.
RECURSIVE SortedCols(_)
SortedCols(S) ==
  IF S = {} THEN << >>
  ELSE LET m == CHOOSE x \in S : \A y \in S : x <= y
       IN  << m >> \o SortedCols(S \ {m})

RECURSIVE CsrColumns(_, _, _)
CsrColumns(cols, j, n_rows) ==
  IF j >= n_rows THEN << >>
  ELSE SortedCols(cols[j]) \o CsrColumns(cols, j + 1, n_rows)

RECURSIVE CsrIndex(_, _)
CsrIndex(cols, j) ==
  IF j = 0 THEN 0 ELSE CsrIndex(cols, j - 1) + Cardinality(cols[j - 1])

CsrArrays(type, n_rows, cols, grow_id) ==
  LET seq == CsrColumns(cols, 0, n_rows)
  IN  [ type |-> type, db_size |-> 1, n_rows |-> n_rows,
        row_index |-> [j \in 0 .. n_rows |-> CsrIndex(cols, j)],
        col_id |-> [i \in 0 .. (Len(seq) - 1) |-> seq[i + 1]],
        grow_id |-> grow_id ]

\* The matrices whose columns are uploaded: CSR and MSR (extra-diagonal)
\* structures of at most max_rows rows with one ghost column, every row
\* holding at least one column.
UploadMatrices(max_rows) ==
  UNION { UNION { UNION {
    { CsrArrays(type, n_rows, cols,
                block_row_g_id(base, n_rows, << ghost >>)) :
        cols \in [0 .. (n_rows - 1) -> (SUBSET (0 .. n_rows)) \ {{}}],
        type \in {"CS_MATRIX_CSR", "CS_MATRIX_MSR"} } :
      ghost \in GhostIds(base, n_rows) } :
      base \in UploadBases(n_rows) } :
      n_rows \in 1 .. max_rows }

\* The loop of cs_sles_amgx_setup that fills col_gid, row j and the rows
\* after it: col_gid[i] = grow_id[a_col_id[i]].
RECURSIVE col_gid_rows(_, _, _)
col_gid_rows(a, j, col_gid) ==
  IF j >= a.n_rows THEN col_gid
  ELSE col_gid_rows(a, j + 1,
         [i \in DOMAIN col_gid |->
            IF i >= a.row_index[j] /\ i < a.row_index[j + 1]
            THEN ToInt(a.grow_id[a.col_id[i]])
            ELSE col_gid[i]])

\* BFT_MALLOC(col_gid, a_row_index[n_rows], int), then the loop.
col_gid_of(a) ==
  col_gid_rows(a, 0, [i \in 0 .. (a.row_index[a.n_rows] - 1) |-> Uninit])

\* cs_sles_amgx_setup on a usable matrix, from the column ids to
\* AMGX_matrix_upload_all: the arrays the library is given.  One matrix is
\* uploaded in a run.
UploadColumns ==
  /\ Running /\ AllIdle
  /\ last.op = "none"
  /\ \E a \in UploadMatrices(MaxRows) :
       /\ ~MatrixUnusable(a)
       /\ last' = [op |-> "upload", a |-> a,
                   n |-> a.n_rows, nnz |-> a.row_index[a.n_rows],
                   row_ptrs |-> a.row_index,
                   col_indices_global |-> col_gid_of(a)]
  /\ UNCHANGED <<hypre_vars, amgx_res_vars, amgx_lib_vars, amgx_sys_vars,
                 pc, bft_err>>

(***************************************************************************)
(* Gather and scatter around the solve (src/src/cdo/cs_equation_common.c). *)
(* A buffer is a function from 0-based positions to values.  The range     *)
(* set and interface set operations are those of the parallel              *)
(* synchronization layer: gather compacts the elements the rank owns to    *)
(* the front of the buffer, scatter puts them back and fills the others    *)
(* with their owners' values, the interface sum adds the other ranks'      *)
(* contributions to the shared elements.                                   *)
(***************************************************************************)
\* The content of an allocated entry nothing has been written to.
Unset == -1

\* The elements of 0 .. n_elts - 1 the rank owns, in increasing order.
OwnedElts(rset) == SortedCols({i \in DOMAIN rset.owned : rset.owned[i]})

\* The range sets of n_elts local elements: each set of owned elements,
\* without interface set or with one that holds the elements not owned and
\* the first owned one.
RangeSets(n_elts) ==
  { [owned |-> [i \in 0 .. (n_elts - 1) |-> i \in O], ifs |-> ifs] :
      O \in SUBSET (0 .. (n_elts - 1)), ifs \in {NULL, [tag |-> "ifs"]} }

\* The elements an interface set shares with other ranks.
SharedElts(rset) ==
  LET own == OwnedElts(rset)
  IN  {i \in DOMAIN rset.owned : ~rset.owned[i]}
      \cup (IF Len(own) > 0 THEN {own[1]} ELSE {})

\* cs_range_set_gather(rset, type, stride, src, dest), dest holding src
\* when the call is in place.
range_set_gather(rset, src, dest) ==
  IF rset = NULL THEN dest
  ELSE LET own == OwnedElts(rset)
       IN  [k \in DOMAIN dest |->
              IF k < Len(own) THEN src[own[k + 1]] ELSE dest[k]]

\* cs_range_set_scatter(rset, type, stride, src, dest): owner_val gives the
\* values the owning ranks hold for the elements this rank does not own.
range_set_scatter(rset, src, dest, owner_val) ==
  IF rset = NULL THEN dest
  ELSE LET own == OwnedElts(rset)
           pos(i) == CHOOSE k \in 1 .. Len(own) : own[k] = i
       IN  [i \in DOMAIN dest |->
              IF i \notin DOMAIN rset.owned THEN dest[i]
              ELSE IF rset.owned[i] THEN src[pos(i) - 1]
              ELSE owner_val + i]

\* cs_interface_set_sum(ifs, n_elts, stride, false, type, b): each shared
\* element receives the other ranks' contribution.
interface_set_sum(rset, b, contribution) ==
  [i \in DOMAIN b |->
     IF i \in SharedElts(rset) THEN b[i] + contribution ELSE b[i]]

\* The buffers of one call and the operations applied to them, in order.
EqMachine(x, b, events) == [x |-> x, b |-> b, events |-> events]

\* Variant of cs_equation_prepare_system that reduces the right-hand side
\* after its gather.
prepare_system_sum_after_gather(M, rset, rhs_redux, contribution) ==
  IF rset = NULL THEN M
  ELSE LET x1 == range_set_gather(rset, M.x, M.x)
           b1 == range_set_gather(rset, M.b, M.b)
           redux == rhs_redux /\ rset.ifs # NULL
           b2 == IF redux THEN interface_set_sum(rset, b1, contribution)
                 ELSE b1
       IN  EqMachine(x1, b2,
                     M.events \o << "gather(x)", "gather(b)" >>
                     \o (IF redux THEN << "sum(b)" >> ELSE << >>))

\* cs_equation_prepare_system(stride, x_size, matrix, rset, rhs_redux, x, b)
\* with stride 1.
cs_equation_prepare_system(M, rset, rhs_redux, contribution) ==
  IF rset = NULL THEN M
  ELSE LET x1 == range_set_gather(rset, M.x, M.x)
           redux == rhs_redux /\ rset.ifs # NULL
           b1 == IF redux THEN interface_set_sum(rset, M.b, contribution)
                 ELSE M.b
           b2 == range_set_gather(rset, b1, b1)
       IN  EqMachine(x1, b2,
                     M.events \o << "gather(x)" >>
                     \o (IF redux THEN << "sum(b)" >> ELSE << >>)
                     \o << "gather(b)" >>)

\* The number of rows of the matrix: the elements the rank owns, or all of
\* them without a range set.
MatrixRows(rset, n_scatter_dofs) ==
  IF rset = NULL THEN n_scatter_dofs ELSE Len(OwnedElts(rset))

\* cs_sles_solve(sles, matrix, ..., b, xsol, ...): the solution of each row,
\* a function of what the solver reads in b and xsol.
sles_solve(n_rows, b, xsol) ==
  [k \in DOMAIN xsol |->
     IF k < n_rows THEN 100 + 10 * b[k] + xsol[k] ELSE xsol[k]]

\* The values the owning ranks hold for the unknowns and for the right-hand
\* side of the elements this rank does not own.
OwnerX == 500
OwnerB == 600

\* cs_equation_solve_scalar_system(n_scatter_dofs, slesp, matrix, rset,
\* normalization, rhs_redux, sles, x, b): the buffers after the call, the
\* operations in order, and the buffers the solver was given.
cs_equation_solve_scalar_system(n, n_cols, rset, rhs_redux, x, b, contrib_in) ==
  LET xsol == IF n_cols > n
              THEN [i \in 0 .. (n_cols - 1) |-> IF i < n THEN x[i] ELSE Unset]
              ELSE x
      P == cs_equation_prepare_system(EqMachine(xsol, b, << >>), rset,
                                      rhs_redux, contrib_in)
      n_rows == MatrixRows(rset, n)
      sol == sles_solve(n_rows, P.b, P.x)
      x_out == range_set_scatter(rset, sol, IF n_cols > n THEN x ELSE sol,
                                 OwnerX)
      b_out == range_set_scatter(rset, P.b, P.b, OwnerB)
  IN  [ x |-> x_out, b |-> b_out,
        events |-> P.events \o << "solve", "scatter(x)", "scatter(b)" >>,
        solve_b |-> P.b, solve_x |-> P.x, n_rows |-> n_rows ]

\* The buffers of n entries the calls are given.
Unknowns(n) == { [i \in 0 .. (n - 1) |-> 1 + i] }
RightHandSides(n) == [0 .. (n - 1) -> {1, 2}]

\* One call of cs_equation_prepare_system.
PrepareSystem ==
  /\ Running /\ AllIdle
  /\ last.op = "none"
  /\ \E rset \in RangeSets(MaxCols) \cup {NULL}, rhs_redux \in BOOLEAN :
     \E x \in Unknowns(MaxCols), b \in RightHandSides(MaxCols) :
     \E contribution \in {0, 4} :
       LET P == cs_equation_prepare_system(EqMachine(x, b, << >>), rset,
                                           rhs_redux, contribution)
       IN  last' = [op |-> "prepare_system", rset |-> rset,
                    rhs_redux |-> rhs_redux, x_in |-> x, b_in |-> b,
                    contribution |-> contribution,
                    x |-> P.x, b |-> P.b, events |-> P.events]
  /\ UNCHANGED <<hypre_vars, amgx_res_vars, amgx_lib_vars, amgx_sys_vars,
                 pc, bft_err>>

\* One call of cs_equation_solve_scalar_system.
SolveScalarSystem ==
  /\ Running /\ AllIdle
  /\ last.op = "none"
  /\ \E rset \in RangeSets(MaxCols) \cup {NULL}, rhs_redux \in BOOLEAN :
     \E x \in Unknowns(MaxCols), b \in RightHandSides(MaxCols) :
     \E contribution \in {0, 4}, n_cols \in {MaxCols, MaxCols + 1} :
       /\ n_cols > MaxCols => rset # NULL
       /\ LET R == cs_equation_solve_scalar_system(MaxCols, n_cols, rset,
                                                   rhs_redux, x, b,
                                                   contribution)
          IN  last' = [op |-> "solve_scalar_system", rset |-> rset,
                       rhs_redux |-> rhs_redux, x_in |-> x, b_in |-> b,
                       contribution |-> contribution, n_cols |-> n_cols,
                       x |-> R.x, b |-> R.b, events |-> R.events,
                       solve_b |-> R.solve_b, solve_x |-> R.solve_x,
                       n_rows |-> R.n_rows]
  /\ UNCHANGED <<hypre_vars, amgx_res_vars, amgx_lib_vars, amgx_sys_vars,
                 pc, bft_err>>

(***************************************************************************)
(* Specifications.                                                         *)
(***************************************************************************)
\* The AMGX adapter before any call.
InitAmgxVars ==
  /\ n_amgx_systems = 0
  /\ amgx_initialized = 0
  /\ resource_config_string = NULL
  /\ amgx_resources = NULL
  /\ ctx = [s \in Slots |-> NULL]
  /\ amgx_matrices = {}
  /\ amgx_solvers = {}
  /\ n_handles = 0
  /\ its_hist = [s \in Slots |-> << >>]
  /\ last = [op |-> "none"]
  /\ pc = [t \in Threads |-> "idle"]

\* A HYPRE matrix after _assembler_values_init, with no coefficient yet.
InitHypreVars ==
  /\ mixedint \in BOOLEAN
  /\ l_range \in LRanges
  /\ \E t \in { <<1, CS_MATRIX_SCALAR>>, <<2, CS_MATRIX_BLOCK_D>>,
                <<2, CS_MATRIX_BLOCK>> } :
       db_size = t[1] /\ fill_type = t[2]
  /\ hm = EmptyBag
  /\ contrib = EmptyBag
  /\ n_contrib = 0
  /\ hypre_fail_in \in -1 .. MaxHypreFail

\* The matrix the AMGX specifications leave aside.
IdleHypreVars ==
  /\ mixedint = FALSE
  /\ l_range = <<1, 3>>
  /\ db_size = 1
  /\ fill_type = CS_MATRIX_SCALAR
  /\ hm = EmptyBag
  /\ contrib = EmptyBag
  /\ n_contrib = 0
  /\ hypre_fail_in = -1

\* A matrix of another type, with or without coefficients, before the
\* switch to the HYPRE type.
InitMatrixVars ==
  /\ matrix_type = "previous"
  /\ vtable = PreviousVtable
  /\ vector_multiply = PreviousMultiply
  /\ coeffs \in {NULL, PreviousCoeffs}
  /\ n_coeffs = 0
  /\ mav = NULL
  /\ handles = {}
  /\ n_objects = 0
  /\ mcall = [op |-> "none", events |-> << >>, status |-> 0]
  /\ fill = NoFill

\* The matrix the specifications of the other parts leave aside.
IdleMatrixVars ==
  /\ matrix_type = "previous"
  /\ vtable = PreviousVtable
  /\ vector_multiply = PreviousMultiply
  /\ coeffs = NULL
  /\ n_coeffs = 0
  /\ mav = NULL
  /\ handles = {}
  /\ n_objects = 0
  /\ mcall = [op |-> "none", events |-> << >>, status |-> 0]
  /\ fill = NoFill

\* The structures the counts are computed on: every assembler structure
\* and every edge list of the bounds.
InitPreallocVars ==
  /\ sizes = NoSizes
  /\ numbering = NULL
  /\ walk = NoWalk
  /\ \/ ma \in Assemblers(MaxRows, MaxCols) /\ native = IdleNative
     \/ ma = IdleAssembler /\ native \in Natives(MaxRows, MaxCols)

IdlePreallocVars ==
  /\ ma = IdleAssembler
  /\ native = IdleNative
  /\ sizes = NoSizes
  /\ numbering = NULL
  /\ walk = NoWalk

\* The edge lists the grouped traversal is run on, each with every
\* numbering of the bounds.
InitWalkVars ==
  /\ ma = IdleAssembler
  /\ native \in Natives(MaxRows, MaxCols)
  /\ native.n_rows = MaxRows
  /\ numbering \in Numberings(native.n_edges)
  /\ sizes = NoSizes
  /\ walk = NoWalk

InitHypre ==
  /\ InitHypreVars /\ IdleMatrixVars /\ IdlePreallocVars
  /\ InitAmgxVars /\ bft_err = NoError

NextHypre ==
  \/ AddScalar
  \/ AddBlock
  \/ AddBlockDiag
  \/ AddBlockExtra

SpecHypre == InitHypre /\ [][NextHypre]_vars

InitAmgx ==
  /\ IdleHypreVars /\ IdleMatrixVars /\ IdlePreallocVars
  /\ InitAmgxVars /\ bft_err = NoError

\* Several systems created, copied, set up, freed and destroyed, one call
\* at a time.
NextAmgxLibrary ==
  \/ \E s \in Slots :
       \/ cs_sles_amgx_create(s)
       \/ \E d \in Slots : cs_sles_amgx_copy(s, d)
       \/ cs_sles_amgx_destroy(s)
       \/ Setup(s)
       \/ Free(s)
  \/ cs_sles_amgx_set_config_resources
  \/ cs_sles_amgx_get_config_resources

SpecAmgxLibrary == InitAmgx /\ [][NextAmgxLibrary]_vars

\* The calls on one system, one call at a time.
NextAmgxSystem ==
  \/ cs_sles_amgx_create(1)
  \/ cs_sles_amgx_destroy(1)
  \/ cs_sles_amgx_set_config(1)
  \/ Setup(1)
  \/ Solve(1)
  \/ Free(1)

SpecAmgxSystem == InitAmgx /\ [][NextAmgxSystem]_vars

\* Systems created, copied and destroyed, the first of them configured and
\* set up, one call at a time.
NextAmgxCopy ==
  \/ \E s \in Slots : cs_sles_amgx_create(s)
  \/ cs_sles_amgx_set_config(1)
  \/ cs_sles_amgx_set_config_file(1)
  \/ cs_sles_amgx_set_use_device(1)
  \/ cs_sles_amgx_set_pin_memory(1)
  \/ Setup(1)
  \/ \E s \in Slots, d \in Slots : cs_sles_amgx_copy(s, d)
  \/ \E s \in Slots : cs_sles_amgx_destroy(s)

SpecAmgxCopy == InitAmgx /\ [][NextAmgxCopy]_vars

\* Create and destroy calls of the threads, interleaved.
NextAmgxThreads ==
  \E t \in Threads :
    \/ CreateTest(t)
    \/ CreateInitialize(t)
    \/ CreateCount(t)
    \/ DestroyCount(t)
    \/ DestroyTest(t)
    \/ DestroyFinalize(t)

SpecAmgxThreads == InitAmgx /\ [][NextAmgxThreads]_vars

\* The life cycle of one matrix, one call at a time.
InitHypreMatrix ==
  /\ IdleHypreVars /\ InitMatrixVars /\ IdlePreallocVars
  /\ InitAmgxVars /\ bft_err = NoError

NextHypreMatrix ==
  \/ cs_matrix_set_type_hypre
  \/ assembler_values_create_hypre
  \/ AssemblerValuesAdd
  \/ AssemblerValuesFinalize
  \/ SetCoefficients
  \/ ReleaseCoefficients
  \/ DestroyCoefficients
  \/ CopyDiagonal

SpecHypreMatrix == InitHypreMatrix /\ [][NextHypreMatrix]_vars

\* One call of set_coefficients on a matrix switched to the HYPRE type,
\* chunk by chunk, on each edge list.
InitFillVars ==
  /\ ma = IdleAssembler
  /\ native \in FillNatives(MaxFillRows, MaxFillEdges)
  /\ sizes = NoSizes
  /\ numbering = NULL
  /\ walk = NoWalk

InitHypreFill ==
  /\ IdleHypreVars /\ InitMatrixVars /\ InitFillVars
  /\ InitAmgxVars /\ bft_err = NoError

NextHypreFill ==
  \/ cs_matrix_set_type_hypre
  \/ FillBegin
  \/ FillDiagChunk
  \/ FillEdgeChunk
  \/ FillEnd

SpecHypreFill == InitHypreFill /\ [][NextHypreFill]_vars

\* The counts of each structure, computed by each function.
InitPrealloc ==
  /\ IdleHypreVars /\ IdleMatrixVars /\ InitPreallocVars
  /\ InitAmgxVars /\ bft_err = NoError

NextPrealloc ==
  \/ ComputeAssembler
  \/ ComputeAssemblerDb
  \/ ComputeAssemblerB
  \/ ComputeNative

SpecPrealloc == InitPrealloc /\ [][NextPrealloc]_vars

\* One call of _compute_diag_sizes_native on each edge list and numbering,
\* its threads taking their steps in any order.
InitNativeThreads ==
  /\ IdleHypreVars /\ IdleMatrixVars /\ InitWalkVars
  /\ InitAmgxVars /\ bft_err = NoError

NextNativeThreads ==
  \/ WalkBegin
  \/ \E t_id \in 0 .. (MaxThreads - 1) : ThreadRead(t_id)
  \/ \E t_id \in 0 .. (MaxThreads - 1) : ThreadWrite(t_id)
  \/ \E t_id \in 0 .. (MaxThreads - 1) : ThreadNextGroup(t_id)
  \/ WalkReturn

SpecNativeThreads == InitNativeThreads /\ [][NextNativeThreads]_vars

\* The column ids of each matrix, as setup uploads them.
NextAmgxUpload ==
  \/ UploadColumns

SpecAmgxUpload == InitAmgx /\ [][NextAmgxUpload]_vars

\* One call of the preparation or of the solve, on each range set, pair of
\* buffers and reduction flag.
NextEquation ==
  \/ PrepareSystem
  \/ SolveScalarSystem

SpecEquation == InitAmgx /\ [][NextEquation]_vars

(***************************************************************************)
(* Claims on the HYPRE add callback.                                       *)
(***************************************************************************)

\* The scalar row R of the back-end belongs to an owned (block) row.
OwnedRow(R) ==
  LET blk == R \div db_size
  IN  l_range[1] <= blk /\ blk < l_range[2]

CountIn(B, e) == IF e \in DOMAIN B THEN B[e] ELSE 0

RECURSIVE SumValues(_, _)
SumValues(B, S) ==
  IF S = {} THEN 0
  ELSE LET e == CHOOSE x \in S : TRUE
       IN  e[3] * B[e] + SumValues(B, S \ {e})

\* Total value the bag B holds for position (r, c).
SumOf(B, r, c) ==
  SumValues(B, {e \in DOMAIN B : e[1] = r /\ e[2] = c})

\* C1: on a scalar matrix, after any sequence of add calls that returned, the
\* total value submitted to the back-end for every owned (row, column) pair
\* equals the sum of the values contributed for that pair.
C1_Accumulation ==
  (Running /\ db_size = 1) =>
    \A e \in DOMAIN contrib \cup DOMAIN hm :
      OwnedRow(e[1]) => SumOf(hm, e[1], e[2]) = SumOf(contrib, e[1], e[2])

\* The same, for builds in which HYPRE_Int is as wide as the global ids.
AccumulationWideInt == ~mixedint => C1_Accumulation

\* C2: in the three add paths, after any sequence of add calls that returned,
\* the entries submitted to the back-end are exactly the contributed entries
\* whose row is owned: each as often as it was contributed, none of another
\* row, however the entries were split into calls and batches.
C2_OwnershipFiltering ==
  Running =>
    \A e \in DOMAIN contrib \cup DOMAIN hm :
      CountIn(hm, e) = IF OwnedRow(e[1]) THEN CountIn(contrib, e) ELSE 0

\* The same, for builds in which HYPRE_Int is as wide as the global ids.
OwnershipFilteringWideInt == ~mixedint => C2_OwnershipFiltering

(***************************************************************************)
(* Claims on the AMGX adapter.                                             *)
(***************************************************************************)
\* Number of live contexts.
Live == Cardinality({s \in Slots : ctx[s] # NULL})

\* Context c is READY: its setup data hold a matrix handle and a solver
\* handle among those the library has created and not destroyed.
ReadyIn(c, matrices, solvers) ==
  /\ c # NULL
  /\ c.setup_data # NULL
  /\ c.setup_data.matrix \in matrices
  /\ c.setup_data.solver \in solvers

Ready(s) == ReadyIn(ctx[s], amgx_matrices, amgx_solvers)

Counters(c) ==
  <<c.n_setups, c.n_solves, c.n_iterations_last, c.n_iterations_min,
    c.n_iterations_max, c.n_iterations_tot>>

Max(a, b) == IF a > b THEN a ELSE b

RECURSIVE SeqSum(_)
SeqSum(h) == IF h = << >> THEN 0 ELSE h[1] + SeqSum(Tail(h))

RECURSIVE SeqMin(_)
SeqMin(h) == IF Len(h) = 1 THEN h[1] ELSE Min(h[1], SeqMin(Tail(h)))

RECURSIVE SeqMax(_)
SeqMax(h) == IF Len(h) = 1 THEN h[1] ELSE Max(h[1], SeqMax(Tail(h)))

\* C3: over sequential create, copy and destroy calls that return, the
\* library is initialized exactly in the steps where the number of live
\* contexts goes from 0 to 1 and finalized exactly in the steps where it goes
\* from 1 to 0; so it is initialized iff a context is live, never twice in a
\* row and never finalized twice in a row, and the counter is the number of
\* live contexts.
C3_LibraryLifecycle ==
  [][ (bft_err' = NoError) =>
        /\ (amgx_initialized' = amgx_initialized + 1)
             <=> (Live = 0 /\ Live' = 1)
        /\ (amgx_initialized' = amgx_initialized - 1)
             <=> (Live = 1 /\ Live' = 0)
        /\ amgx_initialized' - amgx_initialized \in {-1, 0, 1}
        /\ amgx_initialized' \in {0, 1}
        /\ (amgx_initialized' = 1) <=> (Live' >= 1)
        /\ n_amgx_systems' = Live'
    ]_vars

\* C3, reached: every context has been destroyed after one of them was set
\* up, and the library has been finalized.
C3_Finalized ==
  /\ Running
  /\ last.op = "destroy"
  /\ Live = 0
  /\ n_handles >= 1
  /\ amgx_initialized = 0

\* C4: with create and destroy calls of several threads interleaved, the
\* library is initialized once for the first consumer and finalized once for
\* the last: it is never initialized twice without a finalization between
\* nor finalized more often than initialized, and when no call is in
\* progress the counter is the number of live contexts and the library is
\* initialized iff a context is live.
C4_SerializedCounter ==
  Running =>
    /\ amgx_initialized \in {0, 1}
    /\ AllIdle => /\ n_amgx_systems = Live
                  /\ (amgx_initialized = 1) <=> (Live >= 1)

\* C5: the external solve is only called with the matrix and solver handles
\* of the context's setup data, both live in the library; a solve that
\* returns leaves the system READY, after one setup more if it was issued
\* without setup data (after create or free), and with the same setup data
\* and number of setups if it was issued READY.
C5_StateMachine ==
  [][ (last'.op = "solve") =>
        LET s == last'.slot
        IN  /\ (last'.ext # NULL) =>
                 /\ last'.ext.matrix \in amgx_matrices'
                 /\ last'.ext.solver \in amgx_solvers'
                 /\ ctx'[s].setup_data # NULL
                 /\ last'.ext.matrix = ctx'[s].setup_data.matrix
                 /\ last'.ext.solver = ctx'[s].setup_data.solver
            /\ last'.returned =>
                 /\ last'.ext # NULL
                 /\ ReadyIn(ctx'[s], amgx_matrices', amgx_solvers')
                 /\ (ctx[s].setup_data = NULL) =>
                      ctx'[s].n_setups = ctx[s].n_setups + 1
                 /\ (ctx[s].setup_data # NULL) =>
                      /\ Ready(s)
                      /\ ctx'[s].n_setups = ctx[s].n_setups
                      /\ ctx'[s].setup_data = ctx[s].setup_data
    ]_vars

\* C5, reached: a solve issued after a free has returned, having done the
\* context's second setup.
C5_SolveAfterFree ==
  /\ Running
  /\ last.op = "solve"
  /\ last.returned
  /\ last.configured
  /\ ctx[last.slot].n_setups = 2
  /\ Ready(last.slot)
  /\ amgx_matrices = {last.ext.matrix}

\* C6: a free destroys the solver and matrix handles of the setup data, if
\* any, and nothing else, clears the setup data and keeps the six counters;
\* with no setup data (as after a free) it destroys nothing; a setup right
\* after a free, on a usable matrix and with no library failure, succeeds,
\* counts one setup more and keeps the other counters.
C6_FreeKeepsCounters ==
  [][ /\ (last'.op = "free") =>
           LET s == last'.slot
               sd == ctx[s].setup_data
           IN  /\ bft_err' = NoError
               /\ ctx'[s].setup_data = NULL
               /\ Counters(ctx'[s]) = Counters(ctx[s])
               /\ (sd # NULL) =>
                    /\ sd.matrix \in amgx_matrices
                    /\ sd.solver \in amgx_solvers
                    /\ amgx_matrices' = amgx_matrices \ {sd.matrix}
                    /\ amgx_solvers' = amgx_solvers \ {sd.solver}
               /\ (sd = NULL) =>
                    /\ amgx_matrices' = amgx_matrices
                    /\ amgx_solvers' = amgx_solvers
      /\ (/\ last.op = "free"
          /\ last'.op = "setup"
          /\ last'.fail = NoFailure
          /\ last'.a.db_size = 1
          /\ last'.a.type \in {"CS_MATRIX_CSR", "CS_MATRIX_MSR"}) =>
           LET s == last'.slot
           IN  /\ bft_err' = NoError
               /\ ReadyIn(ctx'[s], amgx_matrices', amgx_solvers')
               /\ Counters(ctx'[s])
                    = [Counters(ctx[s]) EXCEPT ![1] = @ + 1]
    ]_vars

\* C6, reached: a context that was set up twice and has solved is freed,
\* no handle is left and its counters are kept.
C6_FreedWithHistory ==
  /\ Running
  /\ last.op = "free"
  /\ ctx[last.slot].setup_data = NULL
  /\ ctx[last.slot].n_setups = 2
  /\ ctx[last.slot].n_iterations_tot >= 1
  /\ amgx_matrices = {}
  /\ amgx_solvers = {}

C8_ConvergenceMapping ==
  (last.op = "solve" /\ last.returned) =>
    last.cvg =
      CASE last.status = "AMGX_SOLVE_SUCCESS" -> "CS_SLES_CONVERGED"
        [] last.status = "AMGX_SOLVE_FAILED" -> "CS_SLES_DIVERGED"
        [] last.status = "AMGX_SOLVE_DIVERGED" ->
             IF last.its >= ctx[last.slot].solver_config.max_iters
             THEN "CS_SLES_MAX_ITERATION"
             ELSE "CS_SLES_DIVERGED"
        [] OTHER -> "CS_SLES_ITERATING"

\* C9: a solve in which the external solve was called and reported a status
\* other than SUCCESS returns without a fatal error a state other than
\* CONVERGED, writes the iteration count to n_iter, and counts the solve and
\* its iterations as for a converged solve.
C9_NonSuccessNotFatal ==
  [][ (/\ last'.op = "solve"
       /\ last'.ext # NULL
       /\ last'.status # "AMGX_SOLVE_SUCCESS") =>
        LET c == ctx[last'.slot]
            d == ctx'[last'.slot]
            its == last'.its
        IN  /\ bft_err' = NoError
            /\ last'.returned
            /\ last'.cvg \in {"CS_SLES_DIVERGED", "CS_SLES_MAX_ITERATION",
                              "CS_SLES_ITERATING"}
            /\ last'.n_iter = its
            /\ d.n_solves = c.n_solves + 1
            /\ d.n_iterations_last = its
            /\ d.n_iterations_tot = c.n_iterations_tot + its
            /\ d.n_iterations_min = IF c.n_solves = 0 THEN its
                                    ELSE Min(c.n_iterations_min, its)
            /\ d.n_iterations_max = Max(c.n_iterations_max, its)
    ]_vars

\* C9, reached: the second solve of a context has returned after the
\* library reported FAILED.
C9_FailedSolveReturned ==
  /\ Running
  /\ last.op = "solve"
  /\ last.status = "AMGX_SOLVE_FAILED"
  /\ last.returned
  /\ last.cvg = "CS_SLES_DIVERGED"
  /\ ctx[last.slot].n_solves = 2

\* C10: with h the iteration counts (none negative) of the solves of a
\* context that returned, in order, n_solves is the length of h and, if h
\* is not empty, n_iterations_last is its last element, n_iterations_tot its
\* sum, n_iterations_min its minimum and n_iterations_max its maximum, and
\* the mean of the log is n_iterations_tot / n_solves, between the minimum
\* and the maximum.
C10_IterationStatistics ==
  \A s \in Slots :
    (ctx[s] # NULL) =>
      LET h == its_hist[s]
          c == ctx[s]
      IN  /\ c.n_solves = Len(h)
          /\ (Len(h) >= 1) =>
               /\ c.n_iterations_last = h[Len(h)]
               /\ c.n_iterations_tot = SeqSum(h)
               /\ c.n_iterations_min = SeqMin(h)
               /\ c.n_iterations_max = SeqMax(h)
               /\ LogMean(c) = c.n_iterations_tot \div c.n_solves
               /\ c.n_iterations_min <= LogMean(c)
               /\ LogMean(c) <= c.n_iterations_max

\* C10, reached: three solves of 2, 0 and 1 iterations, with a free and a
\* second setup among them.
C10_ThreeSolves ==
  /\ ctx[1] # NULL
  /\ its_hist[1] = <<2, 0, 1>>
  /\ ctx[1].n_setups = 2

(***************************************************************************)
(* Claims on the life cycle of a HYPRE matrix.                             *)
(***************************************************************************)
\* The fill types cs_matrix_set_type_hypre declares.
DeclaredFillTypes == {CS_MATRIX_SCALAR, CS_MATRIX_SCALAR_SYM}

\* The HYPRE objects created for the matrix and not destroyed, by kind.
LiveMatrices == { o \in handles : o.kind = "IJMatrix" }

LiveVectors == { o \in handles : o.kind = "IJVector" }

\* C11 as stated: while the matrix has the HYPRE type, the slots of the
\* multiply table that are not null are exactly the including-diagonal
\* slots of the scalar and symmetric scalar fill types.
C11_OnlyDeclaredFillTypes ==
  matrix_type = "hypre" =>
    \A f \in FillTypes, x \in 0 .. 1 :
      vector_multiply[f][x] # "NULL" <=> (f \in DeclaredFillTypes /\ x = 0)

\* C11, amended: while the matrix has the HYPRE type, every
\* exclude-diagonal slot is null and the including-diagonal slots of the
\* two scalar fill types are set; the type switch leaves every other slot
\* null, and such a slot is set only by an assembler init that runs on the
\* unassembled matrix while the matrix has that fill type.
C11_DeclaredOrAssembled ==
  /\ [](matrix_type = "hypre" =>
          /\ \A f \in FillTypes : vector_multiply[f][1] = "NULL"
          /\ \A f \in DeclaredFillTypes : vector_multiply[f][0] # "NULL")
  /\ [][ /\ mcall'.op = "cs_matrix_set_type_hypre" =>
              \A f \in FillTypes \ DeclaredFillTypes :
                vector_multiply'[f][0] = "NULL"
         /\ matrix_type = "hypre" =>
              \A f \in FillTypes :
                (vector_multiply[f][0] = "NULL"
                   /\ vector_multiply'[f][0] # "NULL") =>
                  /\ mcall'.op = "_assembler_values_init"
                  /\ coeffs.matrix_state = 0
                  /\ fill_type' = f ]_vars

\* An assembler init has set the slot of the full-block fill type.
C11_BlockMultiplySet ==
  /\ matrix_type = "hypre"
  /\ mcall.op = "_assembler_values_init"
  /\ fill_type = CS_MATRIX_BLOCK
  /\ vector_multiply[CS_MATRIX_BLOCK][0] = "_mat_vec_p_parcsr"

\* C12: a type switch on a matrix that holds coefficients calls the destroy
\* function bound before the switch exactly once, and before the first
\* function pointer is rebound; it ends with a new coefficients structure
\* in the unassembled state.
C12_DestroyBeforeRebind ==
  [][ (mcall'.op = "cs_matrix_set_type_hypre" /\ coeffs # NULL) =>
        LET es == mcall'.events
            D == { i \in DOMAIN es :
                     es[i] = Call(vtable.destroy_coefficients) }
            B == { j \in DOMAIN es : es[j].ev = "bind" }
        IN  /\ Cardinality(D) = 1
            /\ Bind("destroy_coefficients") \in { es[j] : j \in B }
            /\ \A i \in D, j \in B : i < j
            /\ coeffs'.tag = "hypre"
            /\ coeffs'.matrix_state = 0
            /\ coeffs'.id > n_coeffs
            /\ coeffs' # coeffs ]_vars

\* A type switch has destroyed the coefficients of an assembled HYPRE
\* matrix.
C12_SwitchedAssembled ==
  /\ mcall.op = "cs_matrix_set_type_hypre"
  /\ \E i \in DOMAIN mcall.events :
       mcall.events[i] = Call("HYPRE_IJMatrixDestroy")
  /\ coeffs.matrix_state = 0

\* C13: once destroy_coefficients has freed the coefficients structure, no
\* HYPRE matrix and no HYPRE vector created for the matrix is left
\* undestroyed, and the destructions come before the structure is freed.
C13_DestroyReleasesHandles ==
  mcall.op = "_destroy_coeffs_ij" =>
    /\ coeffs.tag = "freed"
    /\ handles = {}
    /\ \A i \in DOMAIN mcall.events :
         mcall.events[i] = Call("BFT_FREE") => i = Len(mcall.events)

\* The creations of the sessions are guarded by the state: init creates
\* one matrix when matrix_state is 0 and none otherwise, add creates
\* nothing, end creates two vectors when matrix_state is 0 and none
\* otherwise, and leaves matrix_state at 1.
GuardedCreation ==
  [][ LET new_m == Cardinality(LiveMatrices' \ LiveMatrices)
          new_v == Cardinality(LiveVectors' \ LiveVectors)
          n == IF coeffs.matrix_state = 0 THEN 1 ELSE 0
      IN  /\ mcall'.op = "_assembler_values_init" =>
               new_m = n /\ new_v = 0
          /\ mcall'.op = "_assembler_values_add_g" =>
               handles' = handles
          /\ mcall'.op = "_assembler_values_end" =>
               new_m = 0 /\ new_v = 2 * n /\ coeffs'.matrix_state = 1 ]_vars

\* C14: the creations of the sessions are guarded by the state, so that at
\* most one HYPRE matrix and one pair of HYPRE vectors created for the
\* matrix is live at any time.
C14_AtMostOneLive ==
  /\ Cardinality(LiveMatrices) <= 1
  /\ Cardinality(LiveVectors) <= 2

\* Of the objects created for the coefficients structure the matrix holds,
\* at most one matrix and one pair of vectors is live.
AtMostOneLivePerStructure ==
  coeffs.tag = "hypre" =>
    /\ Cardinality({ o \in LiveMatrices : o.owner = coeffs.id }) <= 1
    /\ Cardinality({ o \in LiveVectors : o.owner = coeffs.id }) <= 2

\* C15: an end on a matrix that an earlier end has assembled, and the init
\* of the session it closes, submit no coefficient, create no vector and
\* leave the coefficient values, the handles and matrix_state as the
\* earlier end left them: without an add in between, the state after the
\* second end is the state after the first.
C15_IdempotentFinalize ==
  [][ (/\ mcall'.op \in {"_assembler_values_init", "_assembler_values_end"}
       /\ coeffs.matrix_state = 1) =>
        /\ hm' = hm
        /\ handles' = handles
        /\ coeffs' = coeffs
        /\ \A i \in DOMAIN mcall'.events :
             mcall'.events[i] \notin {Call("HYPRE_IJMatrixAddToValues"),
                                      Call("HYPRE_IJVectorCreate"),
                                      Call("HYPRE_IJMatrixCreate")} ]_vars

\* A second session without add has ended on an assembled matrix that
\* holds coefficients.
C15_SecondEnd ==
  /\ mcall.op = "_assembler_values_end"
  /\ mcall.events = << Call("HYPRE_IJMatrixAssemble") >>
  /\ coeffs.matrix_state = 1
  /\ hm # EmptyBag

\* C16: the vectors hx and hy of a coefficients structure have the index
\* range with which the HYPRE matrix of the same structure was created;
\* an assembled structure has its matrix and its two vectors live.
C16_VectorRangeIsMatrixRange ==
  /\ \A v \in LiveVectors, m \in LiveMatrices :
       v.owner = m.owner => v.ilower = m.ilower /\ v.iupper = m.iupper
  /\ (coeffs.tag = "hypre" /\ coeffs.matrix_state = 1) =>
       /\ \E m \in LiveMatrices : m.id = coeffs.hm /\ m.owner = coeffs.id
       /\ \A h \in {coeffs.hx, coeffs.hy} :
            \E v \in LiveVectors : v.id = h /\ v.owner = coeffs.id

\* A session with blocks of size 2 has ended and created the two vectors
\* on the range of the scalar rows.
C16_BlockVectors ==
  /\ mcall.op = "_assembler_values_end"
  /\ db_size = 2
  /\ \E v \in LiveVectors :
       /\ v.id = coeffs.hx
       /\ v.owner = coeffs.id
       /\ v.ilower = 2 * l_range[1]
       /\ v.iupper = 2 * l_range[2] - 1

(***************************************************************************)
(* Claims on the preallocation counts.                                     *)
(***************************************************************************)
\* The positions of row i in the column ids of structure a, and those
\* that hold a local or a distant column.
RowPositions(a, i) == (a.row_index[i + 1] + 1) .. a.row_index[i + 2]

LocalPositions(a, i) ==
  { j \in RowPositions(a, i) : a.col_ids[j] < a.n_rows }

DistantPositions(a, i) ==
  { j \in RowPositions(a, i) : a.col_ids[j] >= a.n_rows }

\* Each row lists its local columns before its distant ones.
LocalFirst(a) ==
  \A i \in 0 .. (a.n_rows - 1) :
    \A j \in LocalPositions(a, i), k \in DistantPositions(a, i) : j < k

\* The number of entries the separately stored diagonal adds to a row.
SeparateDiag(a) == IF a.separate_diag THEN 1 ELSE 0

\* C17: for a structure whose rows list local columns before distant ones,
\* the scalar variant gives each row the number of its local columns, plus
\* one for a separately stored diagonal, as diagonal count and the number
\* of its distant columns as off-diagonal count; the two add up to the
\* number of nonzero positions of the row.
C17_ScalarCounts ==
  (sizes.fn = "_compute_diag_sizes_assembler" /\ LocalFirst(ma)) =>
    \A i \in 0 .. (ma.n_rows - 1) :
      LET d == sizes.counts.diag_sizes[i]
          o == sizes.counts.offdiag_sizes[i]
      IN  /\ d = Cardinality(LocalPositions(ma, i)) + SeparateDiag(ma)
          /\ o = Cardinality(DistantPositions(ma, i))
          /\ d + o = Cardinality(RowPositions(ma, i)) + SeparateDiag(ma)

\* The scalar variant has counted a row with a separately stored
\* diagonal, one local column and one distant one.
C17_CountedMixedRow ==
  /\ sizes.fn = "_compute_diag_sizes_assembler"
  /\ ma.separate_diag
  /\ ma.n_rows = 2
  /\ Cardinality(LocalPositions(ma, 0)) = 1
  /\ Cardinality(DistantPositions(ma, 0)) = 1
  /\ sizes.counts.diag_sizes[0] = 2
  /\ sizes.counts.offdiag_sizes[0] = 1

\* Row i of structure a has its diagonal among its columns.
SelfAmongColumns(a, i) == \E j \in RowPositions(a, i) : a.col_ids[j] = i

\* C18: in the mixed and in the full-block variant, each scalar row of
\* each block row gets counts that are not negative and that add up to the
\* number of scalar nonzero positions it holds; the diagonal block gives
\* b_size positions to the diagonal count, be it stored separately or
\* among the columns, where it is not counted as an extra-diagonal term.
C18_BlockCounts ==
  LET b == sizes.b_size
      mixed == sizes.fn = "_compute_diag_sizes_assembler_db"
      full == sizes.fn = "_compute_diag_sizes_assembler_b"
  IN  (mixed \/ full) =>
        \A k \in 0 .. (ma.n_rows * b - 1) :
          LET i == k \div b
              d == sizes.counts.diag_sizes[k]
              o == sizes.counts.offdiag_sizes[k]
              n_local == Cardinality(LocalPositions(ma, i))
              n_distant == Cardinality(DistantPositions(ma, i))
              self == IF SelfAmongColumns(ma, i) THEN 1 ELSE 0
              n_diag == self + SeparateDiag(ma)
          IN  /\ d >= 0 /\ o >= 0
              /\ mixed => /\ d = (n_local - self) + n_diag * b
                          /\ o = n_distant
              /\ full => /\ d = (n_local + SeparateDiag(ma)) * b
                         /\ o = n_distant * b

\* The counts of the block variants when no row has its diagonal among its
\* columns.
BlockCountsWithoutSelf ==
  (\A i \in 0 .. (ma.n_rows - 1) : ~SelfAmongColumns(ma, i)) =>
    C18_BlockCounts

\* The three functions that count the entries of an assembler structure.
AssemblerVariants ==
  { "_compute_diag_sizes_assembler", "_compute_diag_sizes_assembler_db",
    "_compute_diag_sizes_assembler_b" }

\* C19: an assembler init that creates the matrix runs exactly one of the
\* three variants: the scalar one exactly when db_size[0] is 1, else the
\* mixed one exactly when eb_size[0] is 1, else the full-block one; it runs
\* before the sizes are given to the back-end and before the back-end
\* matrix is initialized, and the sizes given are the ones it computed.
C19_ThreeWayDispatch ==
  [][ (mcall'.op = "_assembler_values_init" /\ coeffs.matrix_state = 0) =>
        LET es == mcall'.events
            At(name) == { i \in DOMAIN es : es[i] = Call(name) }
            V == { i \in DOMAIN es : es[i].name \in AssemblerVariants }
            want == IF mav'.db_size = 1
                    THEN "_compute_diag_sizes_assembler"
                    ELSE IF mav'.eb_size = 1
                    THEN "_compute_diag_sizes_assembler_db"
                    ELSE "_compute_diag_sizes_assembler_b"
        IN  /\ Cardinality(V) = 1
            /\ V = At(want)
            /\ Cardinality(At("HYPRE_IJMatrixSetDiagOffdSizes")) = 1
            /\ Cardinality(At("HYPRE_IJMatrixInitialize_v2")) = 1
            /\ \A i \in V, j \in At("HYPRE_IJMatrixSetDiagOffdSizes"),
                  k \in At("HYPRE_IJMatrixInitialize_v2") : i < j /\ j < k
            /\ \E m \in LiveMatrices' :
                 /\ m.id = coeffs'.hm
                 /\ m.counts = DiagSizes(want, ma, mav'.db_size) ]_vars

\* An init with a diagonal block size of 2 and scalar extra-diagonal terms
\* has run the mixed variant.
C19_MixedVariantRan ==
  /\ mcall.op = "_assembler_values_init"
  /\ mav # NULL
  /\ mav.db_size = 2
  /\ mav.eb_size = 1
  /\ \E i \in DOMAIN mcall.events :
       mcall.events[i] = Call("_compute_diag_sizes_assembler_db")

\* The ends <<edge, side>> of the edges of list e that are at local id i,
\* and the global id of the end opposite to one of them.
EndsAt(e, i) ==
  { x \in (1 .. e.n_edges) \X {1, 2} : e.edges[x[1]][x[2]] = i }

OppositeGid(e, x) == e.g_e_id[e.edges[x[1]][3 - x[2]] + 1]

\* The global id g is one of the rows of list e.
InOwnedRange(e, g) ==
  e.n_rows > 0 /\ g >= e.g_e_id[1] /\ g < e.g_e_id[e.n_rows] + 1

\* C20: the sequential walk gives each row i, as diagonal count, one for
\* the diagonal if there is one plus the number of ends of edges at i whose
\* opposite end has a global id in the owned range and, as off-diagonal
\* count, the number of ends at i whose opposite end is outside it; only
\* the rows get counts, and each edge counts once for each of its ends.
C20_NativeCounts ==
  sizes.fn = "_compute_diag_sizes_native" =>
    /\ DOMAIN sizes.counts.diag_sizes = 0 .. (native.n_rows - 1)
    /\ DOMAIN sizes.counts.offdiag_sizes = 0 .. (native.n_rows - 1)
    /\ \A i \in 0 .. (native.n_rows - 1) :
         LET inside == { x \in EndsAt(native, i) :
                           InOwnedRange(native, OppositeGid(native, x)) }
             outside == EndsAt(native, i) \ inside
         IN  /\ sizes.counts.diag_sizes[i] =
                  (IF sizes.have_diag THEN 1 ELSE 0) + Cardinality(inside)
             /\ sizes.counts.offdiag_sizes[i] = Cardinality(outside)

\* The walk has counted, for the first row of a matrix with a diagonal,
\* an edge to another row and an edge to a ghost outside the owned range,
\* the row being the second end of one of them.
C20_CountedBothKinds ==
  /\ sizes.fn = "_compute_diag_sizes_native"
  /\ sizes.have_diag
  /\ native.n_rows = 2
  /\ native.n_edges = 2
  /\ \E x \in EndsAt(native, 0) : x[2] = 2
  /\ sizes.counts.diag_sizes[0] = 2
  /\ sizes.counts.offdiag_sizes[0] = 1

(***************************************************************************)
(* Claims on the grouped traversal of _compute_diag_sizes_native.          *)
(***************************************************************************)
\* The edges of the range of thread t_id in group g_id.
RangeEdges(nb, e, t_id, g_id) ==
  { edge_id \in 0 .. (e.n_edges - 1) :
      /\ RangeStart(nb, e, t_id, g_id) <= edge_id
      /\ edge_id < RangeEnd(nb, e, t_id, g_id) }

\* The rows an edge touches: those of its ends that are rows.
RowsOfEdge(e, edge_id) ==
  { r \in {EdgeEnd(e, edge_id, 1), EdgeEnd(e, edge_id, 2)} : r < e.n_rows }

RowsOfRange(nb, e, t_id, g_id) ==
  UNION { RowsOfEdge(e, edge_id) : edge_id \in RangeEdges(nb, e, t_id, g_id) }

\* The ranges of the grouping cover every edge exactly once.
CoversOnce(nb, e) ==
  \A edge_id \in 0 .. (e.n_edges - 1) :
    Cardinality({ c \in (0 .. (nb.n_threads - 1)) \X (0 .. (nb.n_groups - 1)) :
                    edge_id \in RangeEdges(nb, e, c[1], c[2]) }) = 1

\* No two threads of the same group touch the same row.
ConflictFree(nb, e) ==
  \A g_id \in 0 .. (nb.n_groups - 1) :
    \A t, u \in 0 .. (nb.n_threads - 1) :
      t # u => RowsOfRange(nb, e, t, g_id) \cap RowsOfRange(nb, e, u, g_id) = {}

GroupedCountsAreSequential ==
  /\ walk.state = "returned"
  /\ GroupIndex(numbering) # NULL
  /\ CoversOnce(numbering, native)
  /\ ConflictFree(numbering, native)
  => sizes.counts = compute_diag_sizes_native(native, walk.have_diag)

UngroupedWalkIsSequential ==
  /\ walk.state = "running"
  /\ GroupIndex(numbering) = NULL
  /\ walk' # walk
  => /\ DOMAIN walk.th = {0}
     /\ walk'.th[0].edge_id >= walk.th[0].edge_id
     /\ walk'.state = "returned"
        => sizes'.counts = compute_diag_sizes_native(native, walk.have_diag)

\* C21: with a thread grouping that covers every edge exactly once and in
\* which no two threads of a group touch the same row, the counts returned
\* by the grouped traversal, whatever the interleaving of the reads and
\* writes of the threads of a group, are those of the sequential walk; on
\* a matrix without thread numbering one thread walks the edges in
\* ascending order and returns those counts.
C21_GroupedCounts ==
  /\ [](GroupedCountsAreSequential)
  /\ [][UngroupedWalkIsSequential]_vars

\* C21 witness: a traversal has returned in which two threads each walked
\* an edge in the same group, on a grouping that satisfies the conditions.
C21_TwoThreadsInOneGroup ==
  /\ walk.state = "returned"
  /\ GroupIndex(numbering) # NULL
  /\ CoversOnce(numbering, native)
  /\ ConflictFree(numbering, native)
  /\ \E g_id \in 0 .. (numbering.n_groups - 1) :
       /\ RangeEdges(numbering, native, 0, g_id) # {}
       /\ RangeEdges(numbering, native, 1, g_id) # {}

\* Without the condition on the rows the property does not hold: two
\* threads of a group that increment the same element may lose an update.
GroupedCountsWithoutConflictFreedom ==
  /\ walk.state = "returned"
  /\ GroupIndex(numbering) # NULL
  /\ CoversOnce(numbering, native)
  => sizes.counts = compute_diag_sizes_native(native, walk.have_diag)

(***************************************************************************)
(* Claims on the errors of the HYPRE library.                              *)
(***************************************************************************)
\* C22: a nonzero status returned by a back-end call of an add or of the
\* finalization (HYPRE_IJMatrixAssemble in _assembler_values_end) leads to
\* the fatal error state.
C22_BackendFailureFatal ==
  mcall.status # 0 => bft_err # NoError

\* The part on the add callback alone: the call during which a batch
\* submission fails ends in the fatal error state.
AddFailureFatal ==
  [][ (hypre_fail_in >= 0 /\ hypre_fail_in' = -1) => bft_err' # NoError ]_vars

(***************************************************************************)
(* Claims on the extraction of the diagonal.                               *)
(***************************************************************************)
\* The buffer holds the coefficient of the diagonal at each of its
\* n_rows * db_size entries.
DiagonalCopied ==
  \A k \in 0 .. ((l_range[2] - l_range[1]) * db_size - 1) :
    /\ k \in DOMAIN mcall.da
    /\ mcall.da[k] = SumOf(hm, db_size * l_range[1] + k,
                           db_size * l_range[1] + k)

\* C23: after copy_diagonal, every entry k of the n_rows * block_size
\* entries of the buffer holds the coefficient at (ilower + k, ilower + k),
\* whatever the block size.
C23_CopyDiagonal ==
  mcall.op = "_copy_diagonal_ij" => DiagonalCopied

\* The same for block size 1 only.
CopyDiagonalScalar ==
  (mcall.op = "_copy_diagonal_ij" /\ db_size = 1) => DiagonalCopied

(***************************************************************************)
(* Claims on the configurations of the AMGX adapter.                       *)
(***************************************************************************)
\* C24: the resources created at the initialization of the library are
\* created with the resources configuration string set by then, and with
\* a built-in default only if none was set.
C24_ResourceConfig ==
  [][ (amgx_resources = NULL /\ amgx_resources' # NULL) =>
        IF resource_config_string # NULL
        THEN amgx_resources'.config = resource_config_string
        ELSE amgx_resources'.config \in {ResourceConfigMPI,
                                         ResourceConfigSerial} ]_vars

\* The part on the default alone: with no string set, the resources are
\* created with a built-in default.
ResourceConfigDefaultWhenUnset ==
  [][ (/\ amgx_resources = NULL /\ amgx_resources' # NULL
       /\ resource_config_string = NULL) =>
        amgx_resources'.config \in {ResourceConfigMPI,
                                    ResourceConfigSerial} ]_vars

\* The configuration of context c as it stands: the file if one is set,
\* otherwise the string, otherwise the built-in default.
ConfigurationOf(c) ==
  IF c.solver_config_file # NULL THEN c.solver_config_file
  ELSE IF c.solver_config_string # NULL THEN c.solver_config_string
  ELSE DefaultConfig

\* A setup of the context of slot s returns.
SetupReturns(s) ==
  /\ last'.op = "setup" /\ last'.slot = s
  /\ bft_err' = NoError

\* C25: the solver a setup creates is bound to the configuration of the
\* context as it stands at that setup, at the first setup and at every
\* later one.
C25_SolverConfig ==
  [][ \A s \in Slots :
        SetupReturns(s) =>
          ctx'[s].solver_config = ConfigurationOf(ctx[s]) ]_vars

\* The same for the first setup of a context only.
FirstSetupSolverConfig ==
  [][ \A s \in Slots :
        (SetupReturns(s) /\ ctx[s].n_setups = 0) =>
          ctx'[s].solver_config = ConfigurationOf(ctx[s]) ]_vars

(***************************************************************************)
(* Claims on the handles of the AMGX adapter.                              *)
(***************************************************************************)
\* The positions of the calls of name in a sequence of calls.
CallsOf(calls, name) == { i \in DOMAIN calls : calls[i].call = name }

\* C26: in every free, and in every destroy, the solver handle of the
\* setup is destroyed before its matrix handle, and both before the
\* context is freed.
C26_TeardownOrder ==
  [][ \A s \in Slots :
        (last'.op \in {"free", "destroy"} /\ last'.slot = s
         /\ ctx[s] # NULL /\ ctx[s].setup_data # NULL) =>
          LET calls == last'.calls
              sd == ctx[s].setup_data
          IN  \E i, j \in DOMAIN calls :
                /\ calls[i] = LibCall("AMGX_solver_destroy", sd.solver)
                /\ calls[j] = LibCall("AMGX_matrix_destroy", sd.matrix)
                /\ i < j
                /\ CallsOf(calls, "AMGX_solver_destroy") = {i}
                /\ CallsOf(calls, "AMGX_matrix_destroy") = {j}
                /\ \A k \in DOMAIN calls :
                     calls[k] = LibCall("BFT_FREE", ContextMemory) => j < k
                /\ last'.op = "destroy" =>
                     \E k \in DOMAIN calls :
                       calls[k] = LibCall("BFT_FREE", ContextMemory) ]_vars

\* C26 witness: a context that was set up has been destroyed.
C26_DestroyedAfterSetup ==
  /\ last.op = "destroy"
  /\ CallsOf(last.calls, "AMGX_solver_destroy") # {}
  /\ CallsOf(last.calls, "AMGX_matrix_destroy") # {}

ScalarSolveWithRotation ==
  /\ last.op = "solve"
  /\ last.rotation_mode = "CS_HALO_ROTATION_IGNORE"
  /\ last.db_size = 1
  /\ last.returned

\* ---- C28 ----------------------------------------------------------------
\* The uploaded column ids that equal the global ids of their columns.
ColumnIdsKept ==
  \A i \in DOMAIN last.col_indices_global :
    last.col_indices_global[i] = last.a.grow_id[last.a.col_id[i]]

\* C28: for every stored nonzero i of every row, the column id setup
\* uploads is the global id of local column a_col_id[i], whatever global
\* id the host code can represent.
C28_ColumnIds == last.op = "upload" => ColumnIdsKept

\* The same, for the matrices whose global ids all fit in int.
ColumnIdsWithinInt ==
  (/\ last.op = "upload"
   /\ \A j \in DOMAIN last.a.grow_id : last.a.grow_id[j] <= INT_MAX)
  => ColumnIdsKept

\* An upload of a matrix whose global ids all fit in int.
UploadWithinInt ==
  /\ last.op = "upload"
  /\ \A j \in DOMAIN last.a.grow_id : last.a.grow_id[j] <= INT_MAX
  /\ last.nnz > 1

\* ---- C29 ----------------------------------------------------------------
\* The operations of a solve with a range set, in the order claimed.
ExpectedOrder ==
  << "gather(x)" >>
  \o (IF last.rhs_redux /\ last.rset.ifs # NULL THEN << "sum(b)" >>
      ELSE << >>)
  \o << "gather(b)", "solve", "scatter(x)", "scatter(b)" >>

\* The first position of an operation in the order of the last call, 0 if
\* it is not among them.
PositionOf(name) ==
  IF \E k \in DOMAIN last.events : last.events[k] = name
  THEN CHOOSE k \in DOMAIN last.events :
         /\ last.events[k] = name
         /\ \A j \in 1 .. (k - 1) : last.events[j] # name
  ELSE 0

\* The right-hand side after the reduction over the interfaces, where it is
\* asked for and interfaces exist.
ReducedRhs ==
  IF last.rhs_redux /\ last.rset.ifs # NULL
  THEN [i \in DOMAIN last.b_in |->
          IF i \in SharedElts(last.rset)
          THEN last.b_in[i] + last.contribution ELSE last.b_in[i]]
  ELSE last.b_in

\* The solver was given gathered buffers: row k holds the value of the
\* k-th owned element, of the unknowns and of the reduced right-hand side.
SolveSeesGathered ==
  LET own == OwnedElts(last.rset)
  IN  /\ last.n_rows = Len(own)
      /\ \A k \in 0 .. (last.n_rows - 1) :
           /\ last.solve_x[k] = last.x_in[own[k + 1]]
           /\ last.solve_b[k] = ReducedRhs[own[k + 1]]

\* C29: with a range set, cs_equation_solve_scalar_system performs
\* gather(x), the interface sum on b (only when rhs_redux is set and
\* interfaces exist), gather(b), the solve, scatter(x), scatter(b), in this
\* order: each buffer is gathered before it is scattered, the reduction
\* precedes the gather of b, and the solver is given gathered buffers.
\* With no range set, cs_equation_prepare_system leaves x and b unchanged.
C29_GatherScatterOrder ==
  /\ (last.op = "solve_scalar_system" /\ last.rset # NULL) =>
       /\ last.events = ExpectedOrder
       /\ PositionOf("gather(x)") < PositionOf("scatter(x)")
       /\ PositionOf("gather(b)") < PositionOf("scatter(b)")
       /\ PositionOf("sum(b)") < PositionOf("gather(b)")
       /\ PositionOf("gather(x)") < PositionOf("solve")
       /\ PositionOf("gather(b)") < PositionOf("solve")
       /\ SolveSeesGathered
  /\ (last.op = "prepare_system" /\ last.rset = NULL) =>
       /\ last.x = last.x_in
       /\ last.b = last.b_in
       /\ last.events = << >>

\* A solve with a range set that owns some elements after one it does not
\* own, with the reduction of the right-hand side over the interfaces.
C29_SolveWithReduction ==
  /\ last.op = "solve_scalar_system"
  /\ last.rset # NULL
  /\ last.rhs_redux /\ last.rset.ifs # NULL
  /\ last.contribution > 0
  /\ ~last.rset.owned[0] /\ last.rset.owned[1]
  /\ last.events[2] = "sum(b)"

\* A preparation without range set.
PrepareWithoutRangeSet ==
  /\ last.op = "prepare_system"
  /\ last.rset = NULL
  /\ last.rhs_redux

\* ---- C30 ----------------------------------------------------------------
\* The matrix and solver handles the contexts hold in their setup data.
HeldMatrices ==
  { ctx[s].setup_data.matrix :
      s \in {t \in Slots : ctx[t] # NULL /\ ctx[t].setup_data # NULL} }

HeldSolvers ==
  { ctx[s].setup_data.solver :
      s \in {t \in Slots : ctx[t] # NULL /\ ctx[t].setup_data # NULL} }

\* Every handle that is live in the library is held by a context.
NoHandleLost ==
  /\ amgx_matrices \subseteq HeldMatrices
  /\ amgx_solvers \subseteq HeldSolvers

\* C30: while the program runs, no live matrix or solver handle is lost:
\* each is held by a context that a later free or destroy will release it
\* from, also after a setup on a context that is READY, so that the live
\* handles are at most one matrix and one solver for each context.
C30_HandlesOwned ==
  Running =>
    /\ NoHandleLost
    /\ Cardinality(amgx_matrices) <= Live
    /\ Cardinality(amgx_solvers) <= Live

\* The same, for every call but a setup on a context that is READY: such
\* a call loses no handle.
HandlesOwnedButSetupOnReady ==
  [][ (/\ NoHandleLost
       /\ Running'
       /\ ~(last'.op = "setup" /\ Ready(last'.slot)))
      => NoHandleLost' ]_vars

\* ---- C31 ----------------------------------------------------------------
\* Context d is a copy of context c as the claim describes it.
CopyOf(d, c) ==
  /\ d # NULL
  /\ d.hook_context = c.hook_context
  /\ d.solver_config_string = c.solver_config_string
  /\ d.solver_config_file = c.solver_config_file
  /\ d.amgx_mode = c.amgx_mode
  /\ d.pin_memory = c.pin_memory
  /\ Counters(d) = <<0, 0, 0, 0, 0, 0>>
  /\ d.setup_data = NULL

\* C31: a copy of a context returns a new context with the hook context,
\* the configuration string and file, the device mode and the pin-memory
\* setting of the source, with counters at zero and no setup data; a copy
\* of NULL returns NULL and creates nothing.
C31_Copy ==
  [][ (last'.op = "copy" /\ Running') =>
        IF ctx[last'.from] # NULL
        THEN CopyOf(ctx'[last'.slot], ctx[last'.from])
        ELSE /\ ctx'[last'.slot] = NULL
             /\ n_amgx_systems' = n_amgx_systems
             /\ amgx_initialized' = amgx_initialized ]_vars

\* The part of C31 the copy keeps: the hook context, the counters at zero,
\* no setup data, and the copy of NULL.
CopyKeepsHookContext ==
  [][ (last'.op = "copy" /\ Running') =>
        IF ctx[last'.from] # NULL
        THEN /\ ctx'[last'.slot] # NULL
             /\ ctx'[last'.slot].hook_context = ctx[last'.from].hook_context
             /\ Counters(ctx'[last'.slot]) = <<0, 0, 0, 0, 0, 0>>
             /\ ctx'[last'.slot].setup_data = NULL
        ELSE /\ ctx'[last'.slot] = NULL
             /\ n_amgx_systems' = n_amgx_systems
             /\ amgx_initialized' = amgx_initialized ]_vars

\* ---- C32 ----------------------------------------------------------------
\* A context with the configuration of c that has performed no solve.
TwinWithoutSolves(c) ==
  [NewContext(c.hook_context) EXCEPT
     !.solver_config_string = c.solver_config_string,
     !.solver_config_file = c.solver_config_file,
     !.solver_config = c.solver_config,
     !.amgx_mode = c.amgx_mode,
     !.pin_memory = c.pin_memory]

\* The state the twin returns for the status and the iteration count the
\* library gave to the last solve.
TwinState ==
  ConvergenceState(last.status, last.its, TwinWithoutSolves(ctx[last.slot]))

\* C32: the convergence state a solve returns depends only on the library's
\* status and iteration count for this solve and on the configuration: it
\* is the state that a context with the same configuration and no earlier
\* solve returns for the same status and iteration count.
C32_StateIgnoresHistory ==
  (last.op = "solve" /\ last.returned) => last.cvg = TwinState

\* The same, for every status but AMGX_SOLVE_DIVERGED.
StateIgnoresHistoryButDiverged ==
  (/\ last.op = "solve" /\ last.returned
   /\ last.status # "AMGX_SOLVE_DIVERGED") => last.cvg = TwinState

\* A solve that returns after an earlier solve of the same context.
SolveAfterSolve ==
  /\ last.op = "solve" /\ last.returned
  /\ last.status # "AMGX_SOLVE_DIVERGED"
  /\ ctx[last.slot].n_solves > 1
  /\ ctx[last.slot].n_iterations_max > last.its

\* ---- C33 ----------------------------------------------------------------
\* Each diagonal value once, and for each edge one contribution for each
\* end that is a row.
ExpectedFill ==
  BagOfSeq(SetCoeffsDiag(native, FillDa(native)))
  (+) BagOfSeq(SetCoeffsEdges(native, fill.symmetric, FillXa(native), 0))

\* C33: whatever the numbers of rows and edges relative to the chunk
\* capacity, and whatever the ghost ends of the edges, set_coefficients
\* submits each diagonal value once and, for each edge, one contribution
\* for each end that is an owned row: while it runs nothing is submitted
\* twice, and when it ends nothing was skipped.
C33_SubmittedOnce ==
  /\ fill.state # "none" => \A x \in DOMAIN hm : hm[x] <= 1
  /\ fill.state \in {"end", "done"} => hm = ExpectedFill

\* The edge lists for which each loop ends after one chunk that went
\* through all the rows or edges.
FitsOneChunk ==
  /\ native.n_rows <= max_chunk_size
  /\ native.n_edges > 0 =>
       LET xa == FillXa(native)
       IN  /\ EdgeChunkEdges(native, TRUE, xa, 0, 0) = native.n_edges
           /\ Len(EdgeChunkFrom(native, TRUE, xa, 0, 0)) >= native.n_edges

\* The same as C33, for the inputs of FitsOneChunk.
SubmittedOnceInOneChunk == FitsOneChunk => C33_SubmittedOnce

\* A call on an input of FitsOneChunk that has ended, with edges of each
\* kind of end.
FilledInOneChunk ==
  /\ fill.state = "done"
  /\ FitsOneChunk
  /\ native.n_edges > 1
  /\ \E k \in 1 .. native.n_edges : native.edges[k][1] >= native.n_rows

\* ---- C34 ----------------------------------------------------------------
\* A pass of one of the chunk loops is made in this step.
ChunkStep == fill.state \in {"diag", "edges"} /\ fill' # fill

\* C34: in each chunk loop of set_coefficients the start index after a
\* chunk is strictly greater than before, and is the index of the first
\* row or edge not yet submitted.
C34_ChunksAdvance ==
  [][ ChunkStep =>
        /\ fill'.chunk.next > fill'.chunk.start
        /\ fill'.chunk.next = fill'.chunk.start + fill'.chunk.n_done ]_vars

\* The same for the first chunk of a loop that goes through as many
\* entries as rows or edges.
FirstChunkAdvances ==
  [][ (/\ ChunkStep
       /\ fill'.chunk.start = 0
       /\ fill'.chunk.ic = fill'.chunk.n_done
       /\ fill'.chunk.ic > 0) =>
        /\ fill'.chunk.next > fill'.chunk.start
        /\ fill'.chunk.next = fill'.chunk.start + fill'.chunk.n_done ]_vars

\* No loop is still running after MaxChunks chunks.
FillLoopsEnd == fill.state \in {"diag", "edges"} => fill.n_chunks < MaxChunks

\* ---- C35 ----------------------------------------------------------------
\* This step is a call of set_coefficients.
SetCoefficientsStep ==
  mcall'.op = "_set_coeffs_ij" /\ n_contrib' = n_contrib + 1

\* The matrix B holds, at every position given, the value given there by
\* SetCoefficients, and nothing else.
HoldsGivenValues(B, symmetric) ==
  /\ B = BagOfSeq(SetCoeffsDiag(native, [i \in 1 .. native.n_rows |-> 1]))
         (+) BagOfSeq(SetCoeffsEdges(native, symmetric,
                        [i \in 1 .. (2 * native.n_edges) |-> 2], 0))
  /\ \A x \in DOMAIN B : IJMatrixValue(B, x[1], x[2]) = x[3]

\* A second set_coefficients without release leaves the coefficients as
\* they were.
SetTwiceAsOnce ==
  (mcall.op = "_set_coeffs_ij" /\ SetCoefficientsStep) =>
    \A x \in DOMAIN hm' :
      IJMatrixValue(hm', x[1], x[2]) = IJMatrixValue(hm, x[1], x[2])

\* After release_coefficients, set_coefficients leaves exactly the values
\* given.
SetAfterRelease ==
  (mcall.op = "_release_coeffs_ij" /\ SetCoefficientsStep) =>
    HoldsGivenValues(hm', fill_type' = CS_MATRIX_SCALAR_SYM)

\* C35: set_coefficients called twice in a row with the same values,
\* without release_coefficients in between, leaves the matrix with the
\* coefficients of one call; after release_coefficients followed by
\* set_coefficients the matrix holds exactly the values given.
C35_SetNotAccumulate == [][SetTwiceAsOnce /\ SetAfterRelease]_vars

\* The second half of C35 alone.
SetAfterReleaseHolds == [][SetAfterRelease]_vars

\* set_coefficients has filled a matrix that release_coefficients had
\* emptied after an earlier fill.
SetAgainAfterRelease ==
  /\ mcall.op = "_set_coeffs_ij"
  /\ n_contrib = 2
  /\ coeffs.tag = "hypre" /\ coeffs.matrix_state = 1
  /\ HoldsGivenValues(hm, fill_type = CS_MATRIX_SCALAR_SYM)

\* ---- C36 ----------------------------------------------------------------
\* C36: after destroy_coefficients the coefficients handle of the matrix is
\* NULL, and in no state does the matrix reference a freed coefficients
\* structure that a later destroy_coefficients, release_coefficients or
\* cs_matrix_set_type_hypre would read or free again.
C36_NoFreedCoefficients ==
  /\ mcall.op = "_destroy_coeffs_ij" => coeffs = NULL
  /\ coeffs.tag # "freed"

\* The number of BFT_FREE among the events of the last call.
FreesOfCall ==
  Cardinality({ i \in DOMAIN mcall.events :
                  mcall.events[i] = Call("BFT_FREE") })

\* One call of destroy_coefficients frees the structure once, and a type
\* switch, which replaces the handle after it, leaves the matrix with the
\* new structure.
DestroyFreesOnce ==
  /\ mcall.op = "_destroy_coeffs_ij" => FreesOfCall = 1
  /\ mcall.op = "cs_matrix_set_type_hypre" =>
       /\ coeffs.tag = "hypre"
       /\ FreesOfCall <= 1

\* destroy_coefficients has returned on an assembled matrix whose type is
\* still the HYPRE one.
DestroyedAssembled ==
  /\ mcall.op = "_destroy_coeffs_ij"
  /\ \E i \in DOMAIN mcall.events :
       mcall.events[i] = Call("HYPRE_IJMatrixDestroy")
  /\ vtable.destroy_coefficients = "_destroy_coeffs_ij"

\* ---- C37 ----------------------------------------------------------------
\* C37: the AMGX system counter is the number of live contexts in every
\* state and is never negative; cs_sles_amgx_destroy leaves the pointer of
\* its caller NULL, and through a pointer that is NULL already it changes
\* neither the counter nor the initialized state of the library.
C37_CounterIsLive ==
  [][ /\ n_amgx_systems = Live /\ n_amgx_systems >= 0
      /\ n_amgx_systems' = Live' /\ n_amgx_systems' >= 0
      /\ (last'.op = "destroy" /\ last' # last) =>
           ctx'[last'.slot] = NULL
      /\ (last'.op = "destroy" /\ ctx[last'.slot] = NULL) =>
           /\ n_amgx_systems' = n_amgx_systems
           /\ amgx_initialized' = amgx_initialized
           /\ amgx_resources' = amgx_resources ]_vars

\* C37, reached: a destroy through a NULL pointer has returned while
\* another context is live and the library initialized.
C37_DestroyedThroughNull ==
  /\ Running
  /\ last.op = "destroy"
  /\ last.calls = << >>
  /\ ctx[last.slot] = NULL
  /\ n_handles >= 1
  /\ Live >= 1
  /\ n_amgx_systems = Live
  /\ amgx_initialized = 1

\* ---- C38 ----------------------------------------------------------------
\* The ownership test of add decides the global row id as its full-width
\* value does.
DecidedOnFullWidth(id) ==
  RowIsLocal(id, l_range[1], l_range[2])
    <=> (l_range[1] <= id /\ id < l_range[2])

\* C38: for every global row id the host type can hold, those at or beyond
\* the range of HYPRE_Int included, the ownership test of add passes if and
\* only if lo <= id < hi; so that no entry of an unowned row is kept and no
\* entry of an owned row dropped by the add calls made.
C38_FullWidthOwnershipTest ==
  (Running /\ DOMAIN contrib # {}) =>
    /\ \A id \in Gnum : DecidedOnFullWidth(id)
    /\ \A e \in DOMAIN contrib \cup DOMAIN hm :
         (e \in DOMAIN hm) <=> (e \in DOMAIN contrib /\ OwnedRow(e[1]))

\* The ids within the range of HYPRE_Int are decided as their full-width
\* value is, in every build; in the builds in which HYPRE_Int is as wide
\* as the ids, every id is.
NarrowIdsDecidedOnFullWidth ==
  /\ \A id \in Gnum : id < Pow2(IntBits - 1) => DecidedOnFullWidth(id)
  /\ ~mixedint => C38_FullWidthOwnershipTest

\* An add call has submitted an entry of an owned row in a build in which
\* HYPRE_Int is narrower than the ids.
OwnedEntryKeptNarrow ==
  /\ mixedint
  /\ \E e \in DOMAIN hm : e \in DOMAIN contrib /\ OwnedRow(e[1])

====
